---- MODULE Spec2Model ----
(***************************************************************************)
(* Model of AdvancedStockAnalyzer (src/app.py): the indicator, signal,     *)
(* probability, risk and relative-performance pipeline and the analyzer's  *)
(* one mutable field, market_data.                                         *)
(*                                                                         *)
(* Number representation.  The code computes in binary floating point; the *)
(* model computes the same expressions in fixed point over the integers:   *)
(*   closes                      whole price units                         *)
(*   prices derived from closes  hundredths of a price unit  (PriceScale)  *)
(*   returns, means, deviations  1/10000 of a fraction       (BP)          *)
(*   percentages in records      hundredths of a percent     (= BP)        *)
(*   ratios (sharpe, beta, ...)  thousandths                 (RatioScale)  *)
(*   rsi, bb_position            hundredths of a point                     *)
(* NaN is a distinguished value outside every range; every operator that   *)
(* can meet it tests for it, as pandas/numpy propagate it.                 *)
(***************************************************************************)
EXTENDS Integers, Sequences, FiniteSets, TLC

VARIABLES
    market_data,   \* analyzer.market_data: None or the benchmark table
    fill_pad,      \* whether the installed pandas pads in pct_change
    provider,      \* the price table the data provider serves per symbol
    df,            \* the provider's answer the last call worked on
    latest,        \* the row handed to generate_signal
    op,            \* the last call that returned
    arg,           \* its symbol argument
    ret,           \* its return value
    seen,          \* per symbol, what its first analyze_stock call returned
    batch,         \* analyze_all_stocks in progress: position, local lists and
                   \* market_df, what this run's fetch of SPY returned
    runs,          \* per worker thread, its analyze_all_stocks run
    user_portfolios,      \* portfolio.db: the rows of user_portfolios
    prediction_tracking,  \* portfolio.db: the rows of prediction_tracking
    requests,      \* per request thread, the portfolio handler it is in
    watchlist      \* portfolio.db: the rows of watchlist

\* the state outside the analyzer's single calls and batch runs
elsewhere == <<runs, user_portfolios, prediction_tracking, requests, watchlist>>

vars == <<market_data, fill_pad, provider, df, latest, op, arg, ret, seen, batch,
          runs, user_portfolios, prediction_tracking, requests, watchlist>>

----------------------------------------------------------------------------
(* Values and fixed-point helpers *)

NaN == 0 - 1000000000
None == [absent |-> TRUE]

PriceScale == 10 * 10
BP == 100 * 100
RatioScale == 10 * 100

isna(x) == x = NaN

Abs(x) == IF x < 0 THEN 0 - x ELSE x
Min(x, y) == IF x <= y THEN x ELSE y
Max(x, y) == IF x >= y THEN x ELSE y

\* Quotient truncated toward zero, the nearest fixed-point value to x/y
\* that is not larger in magnitude.
Quot(x, y) == IF (x >= 0) = (y > 0) THEN Abs(x) \div Abs(y) ELSE 0 - (Abs(x) \div Abs(y))

RECURSIVE ISqrtIn(_, _, _)
ISqrtIn(x, lo, hi) ==
    IF lo >= hi THEN lo
    ELSE LET mid == (lo + hi + 1) \div 2
         IN  IF mid * mid <= x THEN ISqrtIn(x, mid, hi) ELSE ISqrtIn(x, lo, mid - 1)

\* a * b / d truncated toward zero, for a >= 0 and d > 0, without forming a * b
MulDiv(a, b, d) ==
    LET m == (a \div d) * Abs(b) + ((a % d) * Abs(b)) \div d
    IN  IF b < 0 THEN 0 - m ELSE m

\* a * b / d truncated toward zero, for any a and d > 0
MulDivS(a, b, d) == IF a < 0 THEN 0 - MulDiv(0 - a, b, d) ELSE MulDiv(a, b, d)

\* floor(sqrt(x)) for 0 <= x < 2^31
ISqrt(x) == ISqrtIn(x, 0, Min(x, 46340))

\* sqrt(a * b) for a, b >= 0, keeping as many digits as 32 bits allow
SqrtProduct(a, b) ==
    LET small == Min(a, b)
        big == Max(a, b)
    IN  IF big = 0 \/ small < 2000000000 \div big THEN ISqrt(small * big)
        ELSE IF small < 200000 THEN Quot(ISqrt(big) * ISqrt(small * 10000), 100)
        ELSE ISqrt(big) * ISqrt(small)

\* num / den in RatioScale, truncated toward zero, for den > 0
RatioOf(num, den) ==
    IF Abs(num) < 2000000 THEN Quot(num * RatioScale, den)
    ELSE IF den >= RatioScale THEN Quot(num, Quot(den, RatioScale))
    ELSE num * Quot(RatioScale, den)

\* np.sqrt(k) for a small integer k, in thousandths
SqrtMilli(k) == ISqrt(k * 1000000)

\* Op folded over the positions lo .. hi in increasing order, starting from
\* st.  The range is halved at each level and the left half is evaluated
\* before the right half starts, which keeps the evaluation shallow for
\* year-long columns.
RECURSIVE FoldRange(_, _, _, _)
FoldRange(Op(_, _), st, lo, hi) ==
    IF lo > hi THEN st
    ELSE IF lo = hi THEN Op(st, lo)
    ELSE LET mid == (lo + hi) \div 2
             left == FoldRange(Op, st, lo, mid)
         IN  IF left = left THEN FoldRange(Op, left, mid + 1, hi) ELSE st

----------------------------------------------------------------------------
(* The price tables the data provider can return.  A table is named by its *)
(* shape; history(d) is its close column, index(d) its trading-day index.  *)

TradingDays == 252
ExtraBars == 1
Base == 600
Swing == 45
Dip == 9
Today == 400

BarCounts == {13, 14, 20, 21, 30, 31, 32} \cup (TradingDays .. TradingDays + ExtraBars)

Tables ==
    [bars : BarCounts, hi : {Base, Base + 1, Base + Swing}, trend : {0 - 1, 0, 1},
     dip : {0, Dip}, last_nan : BOOLEAN]

\* A rising table: TrendBars bars, each TrendRate per mille above the one
\* before (to the nearest whole unit), from one of the start prices
TrendBars == 300
TrendRate == 5
TrendStarts == {200 + 3 * k : k \in 0 .. 24}

Rising == [bars : {TrendBars}, start : TrendStarts, rate : {TrendRate}, last_nan : {FALSE}]

\* Sloped tables: too few bars for the statistics, SlopeBars bars, or a
\* quarter of bars, each bar a fixed rate per mille below or above the one
\* before (to the nearest whole unit)
SlopeBars == 40
SlopeStarts == {1000 + 50 * k : k \in 0 .. 9}
SlopeRates == {0 - 12, 0 - 10, 0 - 8, 0 - 2, 5}
Sloped == [bars : {20, SlopeBars, 66}, start : SlopeStarts, rate : SlopeRates, last_nan : {FALSE}]

rising_history(d) ==
    FoldRange(LAMBDA acc, i : Append(acc, acc[i - 1] + Quot(acc[i - 1] * d.rate + 500, 1000)),
              <<d.start>>, 2, d.bars)

\* ticker.history(...)['close']: bar i is Base on odd days and d.hi on even
\* days, plus d.trend per day, less d.dip on the third bar from the end; the
\* last close is missing when d.last_nan.  A rising table has its own column.
history(d) ==
    IF "rate" \in DOMAIN d THEN rising_history(d)
    ELSE [i \in 1 .. d.bars |->
        IF d.last_nan /\ i = d.bars THEN NaN
        ELSE (IF i % 2 = 1 THEN Base ELSE d.hi) + d.trend * i
             - (IF i = d.bars - 2 THEN d.dip ELSE 0)]

\* The table's DatetimeIndex: consecutive trading days ending today.
index(d) == [i \in 1 .. d.bars |-> Today - d.bars + i]

----------------------------------------------------------------------------
(* pandas column operations *)

\* Series.ffill(): the last defined value at or before position i
RECURSIVE ffill_at(_, _)
ffill_at(c, i) ==
    IF i < 1 THEN NaN
    ELSE IF ~isna(c[i]) THEN c[i]
    ELSE ffill_at(c, i - 1)

\* Series.pct_change(): c[i]/c[i-1] - 1 in BP.  Older pandas forward-fills
\* missing closes first (fill_method='pad'), newer pandas does not; pad says
\* which pandas is installed.
pct_change(c, pad) ==
    [i \in 1 .. Len(c) |->
        IF i = 1 THEN NaN
        ELSE LET cur == IF pad THEN ffill_at(c, i) ELSE c[i]
                 prv == IF pad THEN ffill_at(c, i - 1) ELSE c[i - 1]
             IN  IF isna(cur) \/ isna(prv) THEN NaN
                 ELSE Quot((cur - prv) * BP, prv)]

\* Series.dropna()
dropna(c) == SelectSeq(c, LAMBDA x : ~isna(x))

SumFrom(c, lo, hi) == FoldRange(LAMBDA acc, i : acc + c[i], 0, lo, hi)

SumSqFrom(c, lo, hi) == FoldRange(LAMBDA acc, i : acc + c[i] * c[i], 0, lo, hi)

HasNaN(c, lo, hi) == \E i \in lo .. hi : isna(c[i])

\* Series.rolling(window=w).sum() at position t: undefined until the window
\* is full of defined values
rolling_sum(c, t, w) ==
    IF t < w \/ HasNaN(c, t - w + 1, t) THEN NaN ELSE SumFrom(c, t - w + 1, t)

\* Series.rolling(window=w).mean() at position t, in PriceScale
rolling_mean(c, t, w) ==
    LET s == rolling_sum(c, t, w)
    IN  IF isna(s) THEN NaN ELSE Quot(s * PriceScale, w)

\* n * sum(x^2) - sum(x)^2 = n * sum((x - mean)^2) over the window ending at t
rolling_dev(c, t, w) ==
    w * SumSqFrom(c, t - w + 1, t) - SumFrom(c, t - w + 1, t) * SumFrom(c, t - w + 1, t)

\* Series.rolling(window=w).std() (ddof=1) at position t.  unit = 1 keeps the
\* column's own scale; otherwise the result is in unit-ths of the column's
\* scale (unit * unit is a multiple of w for the windows used).
rolling_std(c, t, w, unit) ==
    IF t < w \/ HasNaN(c, t - w + 1, t) THEN NaN
    ELSE IF unit = 1 THEN ISqrt(Quot(rolling_dev(c, t, w), w * (w - 1)))
    ELSE ISqrt(Quot(rolling_dev(c, t, w) * Quot(unit * unit, w), w - 1))

\* Series.diff() at position t
diff(c, t) == IF t < 2 \/ isna(c[t]) \/ isna(c[t - 1]) THEN NaN ELSE c[t] - c[t - 1]

EwmScale == 10 * 100

\* Series.ewm(span=span).mean() (adjust=True): the weighted mean of the values
\* so far with weights (1 - alpha)^k, alpha = 2/(span + 1), kept as the
\* running weighted sum num and weight sum den (both in EwmScale).  A missing
\* value decays the weights and repeats the previous mean.  The means are in
\* unit-ths of the column's scale.
ewm_step(c, span, unit, st, i) ==
    IF isna(c[i])
    THEN [num |-> Quot(st.num * (span - 1), span + 1),
          den |-> Quot(st.den * (span - 1), span + 1),
          y |-> st.y, out |-> Append(st.out, st.y)]
    ELSE LET n2 == c[i] * EwmScale + Quot(st.num * (span - 1), span + 1)
             d2 == EwmScale + Quot(st.den * (span - 1), span + 1)
             y2 == Quot(n2 * unit, d2)
         IN  [num |-> n2, den |-> d2, y |-> y2, out |-> Append(st.out, y2)]

ewm_mean(c, span, unit) ==
    FoldRange(LAMBDA st, i : ewm_step(c, span, unit, st, i),
              [num |-> 0, den |-> 0, y |-> NaN, out |-> <<>>], 1, Len(c)).out

----------------------------------------------------------------------------
(* AdvancedStockAnalyzer.get_stock_data / calculate_technical_indicators *)

MA_SHORT == 20
MA_MID == 50
MA_LONG == 200
RSI_WINDOW == 14
EMA_FAST == 12
EMA_SLOW == 26
EMA_SIGNAL == 9
BB_WINDOW == 20
VOL_WINDOW == 20

\* delta.where(delta > 0, 0) at position i: a missing delta (the first bar, a
\* missing close) is replaced by 0 like any delta that is not positive
gain_at(c, i) == LET dl == diff(c, i) IN IF ~isna(dl) /\ dl > 0 THEN dl ELSE 0

\* -delta.where(delta < 0, 0) at position i
loss_at(c, i) == LET dl == diff(c, i) IN IF ~isna(dl) /\ dl < 0 THEN 0 - dl ELSE 0

gain_from(c, lo, hi) == FoldRange(LAMBDA acc, i : acc + gain_at(c, i), 0, lo, hi)

loss_from(c, lo, hi) == FoldRange(LAMBDA acc, i : acc + loss_at(c, i), 0, lo, hi)

\* rolling(window=14) sum of the gains: the window is full from bar 14 on
gain_sum(c, t) == IF t < RSI_WINDOW THEN NaN ELSE gain_from(c, t - RSI_WINDOW + 1, t)

\* rolling(window=14) sum of the losses
loss_sum(c, t) == IF t < RSI_WINDOW THEN NaN ELSE loss_from(c, t - RSI_WINDOW + 1, t)

\* an RSI for which a gain over no loss is undefined, like 0/0
rsi_at_undefined_without_loss(c, t) ==
    LET g == gain_sum(c, t)
        l == loss_sum(c, t)
    IN  IF isna(g) \/ isna(l) THEN NaN
        ELSE IF l = 0 THEN NaN
        ELSE 100 * PriceScale - Quot(100 * PriceScale * l, g + l)

\* rs = gain / loss; 100 - 100 / (1 + rs), in hundredths.  gain/0 is inf for
\* gain > 0 (rsi 100) and 0/0 is NaN.
rsi_at(c, t) ==
    LET g == gain_sum(c, t)
        l == loss_sum(c, t)
    IN  IF isna(g) \/ isna(l) THEN NaN
        ELSE IF l = 0 THEN (IF g = 0 THEN NaN ELSE 100 * PriceScale)
        ELSE 100 * PriceScale - Quot(100 * PriceScale * l, g + l)

\* get_stock_data: None when the provider's answer is empty or the fetch
\* raised (answer = None); otherwise the table with its returns column.  The
\* cumulative_returns column it also adds is read by nothing.
get_stock_data(answer, pad) ==
    IF answer = None THEN None
    ELSE [close |-> history(answer), returns |-> pct_change(history(answer), pad),
          index |-> index(answer)]

\* calculate_technical_indicators adds the indicator columns.  The two EMA
\* columns are built here; the rolling columns are given by row_at.  Nothing
\* in it can raise on a non-empty table, so it never returns None.
calculate_technical_indicators(t) ==
    LET c == t.close
        exp1 == ewm_mean(c, EMA_FAST, PriceScale)
        exp2 == ewm_mean(c, EMA_SLOW, PriceScale)
        macd == [i \in 1 .. Len(c) |->
                   IF isna(exp1[i]) \/ isna(exp2[i]) THEN NaN ELSE exp1[i] - exp2[i]]
    IN  [close |-> c, returns |-> t.returns, index |-> t.index,
         macd |-> macd, macd_signal |-> ewm_mean(macd, EMA_SIGNAL, 1)]

\* The row of the table at position i.  Prices are in PriceScale, rsi in
\* hundredths, returns in BP, volatility (an annualised fraction) in BP.
row_at(t, i) ==
    LET c == t.close
        bb_ma == rolling_mean(c, i, BB_WINDOW)
        bb_std == rolling_std(c, i, BB_WINDOW, PriceScale)
        vol == rolling_std(t.returns, i, VOL_WINDOW, 1)
    IN  [close |-> IF isna(c[i]) THEN NaN ELSE c[i] * PriceScale,
         ma_20 |-> rolling_mean(c, i, MA_SHORT),
         ma_50 |-> rolling_mean(c, i, MA_MID),
         ma_200 |-> rolling_mean(c, i, MA_LONG),
         rsi |-> rsi_at(c, i),
         macd |-> t.macd[i],
         macd_signal |-> t.macd_signal[i],
         bb_upper |-> IF isna(bb_ma) \/ isna(bb_std) THEN NaN ELSE bb_ma + bb_std * 2,
         bb_lower |-> IF isna(bb_ma) \/ isna(bb_std) THEN NaN ELSE bb_ma - bb_std * 2,
         volatility |-> IF isna(vol) THEN NaN
                        ELSE Quot(vol * SqrtMilli(TradingDays), 1000)]

\* df.iloc[-1]
iloc_last(t) == row_at(t, Len(t.close))

\* df['close'].iloc[-1], in PriceScale
last_close(t) ==
    LET c == t.close[Len(t.close)] IN IF isna(c) THEN NaN ELSE c * PriceScale

----------------------------------------------------------------------------
(* AdvancedStockAnalyzer.generate_signal *)

RSI_OVERSOLD == 30
RSI_OVERBOUGHT == 70

InsufficientSignal ==
    [signal |-> "HOLD", confidence |-> 25, strength |-> 0,
     reasons |-> <<"Insufficient data for analysis">>]

\* an RSI rule that counts exactly 30 as oversold and exactly 70 as
\* overbought
rsi_signal_inclusive(l) ==
    IF isna(l.rsi) THEN [add |-> 0, note |-> <<>>]
    ELSE IF l.rsi <= 30 * PriceScale
         THEN [add |-> 3, note |-> <<"Oversold (RSI < 30)">>]
    ELSE IF l.rsi >= 70 * PriceScale
         THEN [add |-> 0 - 3, note |-> <<"Overbought (RSI > 70)">>]
    ELSE [add |-> 0, note |-> <<"RSI - Neutral zone">>]

\* a band rule that also leaves a note when the close is inside the bands
bb_signal_noting_inside(l) ==
    IF ~isna(l.bb_lower) /\ ~isna(l.bb_upper)
    THEN IF l.close < l.bb_lower
         THEN [add |-> 1, note |-> <<"Below lower Bollinger Band">>]
         ELSE IF l.close > l.bb_upper
              THEN [add |-> 0 - 1, note |-> <<"Above upper Bollinger Band">>]
         ELSE [add |-> 0, note |-> <<"Inside Bollinger Bands">>]
    ELSE [add |-> 0, note |-> <<>>]

\* Each rule yields what it adds to strength and what it appends to signals.
\* The neutral RSI note carries the RSI value in its text; the model keeps
\* the note and leaves the number out of the text.
rsi_signal(l) ==
    IF isna(l.rsi) THEN [add |-> 0, note |-> <<>>]
    ELSE IF l.rsi < RSI_OVERSOLD * PriceScale
         THEN [add |-> 3, note |-> <<"Oversold (RSI < 30)">>]
    ELSE IF l.rsi > RSI_OVERBOUGHT * PriceScale
         THEN [add |-> 0 - 3, note |-> <<"Overbought (RSI > 70)">>]
    ELSE [add |-> 0, note |-> <<"RSI - Neutral zone">>]

ma_signal(l) ==
    LET close_price == l.close
        ma_20 == IF ~isna(l.ma_20) THEN l.ma_20 ELSE close_price
        ma_50 == IF ~isna(l.ma_50) THEN l.ma_50 ELSE close_price
    IN  IF close_price > ma_20 /\ ma_20 > ma_50
        THEN [add |-> 2, note |-> <<"Strong uptrend">>]
        ELSE IF close_price < ma_20 /\ ma_20 < ma_50
             THEN [add |-> 0 - 2, note |-> <<"Strong downtrend">>]
        ELSE IF close_price > ma_20
             THEN [add |-> 1, note |-> <<"Above 20-day average">>]
        ELSE [add |-> 0 - 1, note |-> <<"Below 20-day average">>]

macd_signal_rule(l) ==
    IF ~isna(l.macd) /\ ~isna(l.macd_signal)
    THEN IF l.macd > l.macd_signal
         THEN [add |-> 1, note |-> <<"Positive momentum">>]
         ELSE [add |-> 0 - 1, note |-> <<"Negative momentum">>]
    ELSE [add |-> 0, note |-> <<>>]

bb_signal(l) ==
    IF ~isna(l.bb_lower) /\ ~isna(l.bb_upper)
    THEN IF l.close < l.bb_lower
         THEN [add |-> 1, note |-> <<"Below lower Bollinger Band">>]
         ELSE IF l.close > l.bb_upper
              THEN [add |-> 0 - 1, note |-> <<"Above upper Bollinger Band">>]
         ELSE [add |-> 0, note |-> <<>>]
    ELSE [add |-> 0, note |-> <<>>]

\* overall_signal with the BUY band opened one step late (> 1 for >= 1), the
\* slip the mapping property C3_StrengthMapping is there to catch
overall_signal_late_buy(strength) ==
    IF strength >= 3
    THEN [signal |-> "STRONG BUY", confidence |-> Min(95, 60 + strength * 5)]
    ELSE IF strength > 1
         THEN [signal |-> "BUY", confidence |-> Min(85, 50 + strength * 8)]
    ELSE IF strength <= 0 - 3
         THEN [signal |-> "STRONG SELL", confidence |-> Min(95, 60 + Abs(strength) * 5)]
    ELSE IF strength <= 0 - 1
         THEN [signal |-> "SELL", confidence |-> Min(85, 50 + Abs(strength) * 8)]
    ELSE [signal |-> "HOLD", confidence |-> 50]

\* "Determine overall signal": strength to label and confidence
overall_signal(strength) ==
    IF strength >= 3
    THEN [signal |-> "STRONG BUY", confidence |-> Min(95, 60 + strength * 5)]
    ELSE IF strength >= 1
         THEN [signal |-> "BUY", confidence |-> Min(85, 50 + strength * 8)]
    ELSE IF strength <= 0 - 3
         THEN [signal |-> "STRONG SELL", confidence |-> Min(95, 60 + Abs(strength) * 5)]
    ELSE IF strength <= 0 - 1
         THEN [signal |-> "SELL", confidence |-> Min(85, 50 + Abs(strength) * 8)]
    ELSE [signal |-> "HOLD", confidence |-> 50]

\* generate_signal with the floor testing the close only, so that a row
\* without RSI goes on to the scoring rules; C4_SignalFloor tells it apart
generate_signal_close_only(l) ==
    IF isna(l.close) THEN InsufficientSignal
    ELSE LET r1 == rsi_signal(l)
             r2 == ma_signal(l)
             r3 == macd_signal_rule(l)
             r4 == bb_signal(l)
             strength == r1.add + r2.add + r3.add + r4.add
             o == overall_signal(strength)
         IN  [signal |-> o.signal, confidence |-> o.confidence, strength |-> strength,
              reasons |-> r1.note \o r2.note \o r3.note \o r4.note]

\* generate_signal(df) reads only df.iloc[-1], here l.  No branch of it can
\* raise on a row of numbers and NaNs, so its except clause is never taken.
generate_signal(l) ==
    IF isna(l.close) \/ isna(l.rsi) THEN InsufficientSignal
    ELSE LET r1 == rsi_signal(l)
             r2 == ma_signal(l)
             r3 == macd_signal_rule(l)
             r4 == bb_signal(l)
             strength == r1.add + r2.add + r3.add + r4.add
             o == overall_signal(strength)
         IN  [signal |-> o.signal, confidence |-> o.confidence, strength |-> strength,
              reasons |-> r1.note \o r2.note \o r3.note \o r4.note]

----------------------------------------------------------------------------
(* Series statistics (pandas / numpy), over a column without missing values *)

series_sum(s) == SumFrom(s, 1, Len(s))

\* Series.mean(), in the column's scale
series_mean(s) == IF Len(s) = 0 THEN NaN ELSE Quot(series_sum(s), Len(s))

\* sum of (x - mean)^2
sum_sq_dev(s) ==
    LET m == series_mean(s)
    IN  FoldRange(LAMBDA acc, i : acc + (s[i] - m) * (s[i] - m), 0, 1, Len(s))

\* sum of (x - mean x) * (y - mean y) over two columns of equal length
sum_co_dev(s, u) ==
    LET ms == series_mean(s)
        mu == series_mean(u)
    IN  FoldRange(LAMBDA acc, i : acc + (s[i] - ms) * (u[i] - mu), 0, 1, Len(s))

\* Series.std() (ddof=1): undefined for fewer than two values
series_std(s) ==
    IF Len(s) < 2 THEN NaN ELSE ISqrt(Quot(sum_sq_dev(s), Len(s) - 1))

\* mean * 252, annualised, computed from the sum to keep the precision
annualised_mean(s) == Quot(series_sum(s) * TradingDays, Len(s))

\* x * np.sqrt(k)
times_sqrt(x, k) == Quot(x * SqrtMilli(k), 1000)

----------------------------------------------------------------------------
(* AdvancedStockAnalyzer.calculate_probability_ranges *)

MIN_RETURNS == 30
DAYS_1_WEEK == 5
DAYS_1_MONTH == 22
DAYS_3_MONTHS == 66
DEFAULT_DAILY_STD == 200

\* the guard of calculate_probability_ranges taking 30 returns for limited
\* data as well (<= for <); C6_PlaceholderBands tells it apart
limited_for_probability_inclusive(returns) == Len(returns) <= MIN_RETURNS

\* "if len(returns) < 30" in calculate_probability_ranges
limited_for_probability(returns) == Len(returns) < MIN_RETURNS

\* the low end left as computed, without the floor; C7_BandFloors tells it
\* apart
floor_low_unclamped(low, current_price, tenths) == low

\* "Ensure positive prices": max(low, current_price * tenths / 10)
floor_low(low, current_price, tenths) == Max(low, Quot(current_price * tenths, 10))

\* current_price * pct / 100
pct_of(price, pct) == Quot(price * pct, 100)

placeholder_band(current_price, p68, p95, vol) ==
    [expected_price |-> current_price,
     prob_68_range |-> <<pct_of(current_price, 100 - p68), pct_of(current_price, 100 + p68)>>,
     prob_95_range |-> <<pct_of(current_price, 100 - p95), pct_of(current_price, 100 + p95)>>,
     expected_return |-> 0,
     volatility |-> vol * PriceScale]

\* the "conservative estimates" returned for fewer than 30 returns
placeholder_ranges(current_price) ==
    [w1 |-> placeholder_band(current_price, 2, 5, 5),
     m1 |-> placeholder_band(current_price, 5, 10, 10),
     m3 |-> placeholder_band(current_price, 10, 20, 15)]

\* one pass of the loop over horizons
horizon_band(current_price, mean_return, std_return, days) ==
    LET horizon_mean == mean_return * days
        horizon_std == times_sqrt(std_return, days)
        expected_price == MulDiv(current_price, BP + horizon_mean, BP)
        prob_68_low == MulDiv(current_price, BP + horizon_mean - horizon_std, BP)
        prob_68_high == MulDiv(current_price, BP + horizon_mean + horizon_std, BP)
        prob_95_low == MulDiv(current_price, BP + horizon_mean - 2 * horizon_std, BP)
        prob_95_high == MulDiv(current_price, BP + horizon_mean + 2 * horizon_std, BP)
    IN  [expected_price |-> expected_price,
         prob_68_range |-> <<floor_low(prob_68_low, current_price, 5), prob_68_high>>,
         prob_95_range |-> <<floor_low(prob_95_low, current_price, 3), prob_95_high>>,
         expected_return |-> horizon_mean,
         volatility |-> horizon_std]

\* The result maps '1_week', '1_month', '3_months' (fields w1, m1, m3) to a
\* band; prices in PriceScale, expected_return and volatility in hundredths
\* of a percent.
calculate_probability_ranges(t) ==
    LET current_price == last_close(t)
        returns == dropna(t.returns)
    IN  IF isna(current_price) THEN None
        ELSE IF limited_for_probability(returns) THEN placeholder_ranges(current_price)
        ELSE LET m0 == series_mean(returns)
                 s0 == series_std(returns)
                 mean_return == IF isna(m0) \/ isna(s0) THEN 0 ELSE m0
                 std_return == IF isna(m0) \/ isna(s0) THEN DEFAULT_DAILY_STD ELSE s0
             IN  [w1 |-> horizon_band(current_price, mean_return, std_return, DAYS_1_WEEK),
                  m1 |-> horizon_band(current_price, mean_return, std_return, DAYS_1_MONTH),
                  m3 |-> horizon_band(current_price, mean_return, std_return, DAYS_3_MONTHS)]

----------------------------------------------------------------------------
(* AdvancedStockAnalyzer.calculate_risk_metrics *)

RISK_FREE_RATE == 450

\* the guard of calculate_risk_metrics taking 30 returns for limited data
\* as well (<= for <); C8_RiskPlaceholder tells it apart
limited_for_risk_inclusive(returns) == Len(returns) <= MIN_RETURNS

\* "if len(returns) < 30" in calculate_risk_metrics
limited_for_risk(returns) == Len(returns) < MIN_RETURNS

\* the record returned for limited data; percentages in hundredths of a
\* percent, ratios in RatioScale
placeholder_risk ==
    [annual_return |-> 0, annual_volatility |-> 15 * PriceScale, sharpe_ratio |-> 0,
     sortino_ratio |-> 0, max_drawdown |-> 0 - 5 * PriceScale, calmar_ratio |-> 0]

\* (1 + returns).cumprod(): the running product, in BP
cumprod(returns) ==
    FoldRange(LAMBDA st, i : [cum |-> Quot(st.cum * (BP + returns[i]), BP),
                              out |-> Append(st.out, Quot(st.cum * (BP + returns[i]), BP))],
              [cum |-> BP, out |-> <<>>], 1, Len(returns)).out

\* the maximum of the whole column at every position (.max() for
\* .expanding().max()); C10_MaxDrawdown tells it apart
expanding_max_whole(c) ==
    [i \in 1 .. Len(c) |-> FoldRange(LAMBDA acc, k : Max(acc, c[k]), c[1], 1, Len(c))]

\* Series.expanding().max(): at every position the maximum so far
expanding_max(c) ==
    FoldRange(LAMBDA st, i : [top |-> IF i = 1 THEN c[1] ELSE Max(st.top, c[i]),
                              out |-> Append(st.out, IF i = 1 THEN c[1] ELSE Max(st.top, c[i]))],
              [top |-> 0, out |-> <<>>], 1, Len(c)).out

\* the column (cumulative_returns - rolling_max) / rolling_max, in BP
drawdown_column(cumulative_returns, rolling_max) ==
    [i \in 1 .. Len(cumulative_returns) |->
        Quot((cumulative_returns[i] - rolling_max[i]) * BP, rolling_max[i])]

\* the drawdown column of a column of returns
drawdown_of(returns) == drawdown_column(cumprod(returns), expanding_max(cumprod(returns)))

\* Series.min(): undefined for an empty column
series_min(s) ==
    IF Len(s) = 0 THEN NaN ELSE FoldRange(LAMBDA acc, i : Min(acc, s[i]), s[1], 1, Len(s))

calculate_risk_metrics(t) ==
    LET returns == dropna(t.returns)
    IN  IF limited_for_risk(returns) THEN placeholder_risk
        ELSE LET annual_return == annualised_mean(returns)
                 std == series_std(returns)
                 annual_volatility == IF isna(std) THEN NaN ELSE times_sqrt(std, TradingDays)
             IN  IF isna(annual_return) \/ isna(annual_volatility) THEN placeholder_risk
                 ELSE LET excess_return == annual_return - RISK_FREE_RATE
                          sharpe_ratio ==
                              IF annual_volatility > 0
                              THEN RatioOf(excess_return, annual_volatility) ELSE 0
                          negative_returns == SelectSeq(returns, LAMBDA x : x < 0)
                          neg_std == series_std(negative_returns)
                          downside_deviation ==
                              IF Len(negative_returns) > 0
                              THEN (IF isna(neg_std) THEN NaN
                                    ELSE times_sqrt(neg_std, TradingDays))
                              ELSE annual_volatility
                          \* NaN > 0 is False
                          sortino_ratio ==
                              IF ~isna(downside_deviation) /\ downside_deviation > 0
                              THEN RatioOf(excess_return, downside_deviation) ELSE 0
                          dd == series_min(drawdown_of(returns))
                          max_drawdown == IF isna(dd) THEN 0 - 500 ELSE dd
                          calmar_ratio ==
                              IF max_drawdown # 0
                              THEN RatioOf(annual_return, Abs(max_drawdown)) ELSE 0
                      IN  [annual_return |-> annual_return,
                           annual_volatility |-> annual_volatility,
                           sharpe_ratio |-> sharpe_ratio,
                           sortino_ratio |-> sortino_ratio,
                           max_drawdown |-> max_drawdown,
                           calmar_ratio |-> calmar_ratio]

----------------------------------------------------------------------------
(* AdvancedStockAnalyzer.calculate_relative_performance *)

MIN_COMMON_DATES == 20

\* the guard of calculate_relative_performance refusing 20 common dates as
\* well (<= for <); C11_RelativeAbsent tells it apart
too_few_common_inclusive(common_dates) == Cardinality(common_dates) <= MIN_COMMON_DATES

\* "if len(common_dates) < 20"
too_few_common(common_dates) == Cardinality(common_dates) < MIN_COMMON_DATES

\* the dates at which a returns column is defined (the index after dropna)
valid_dates(returns, idx) == {idx[i] : i \in {j \in 1 .. Len(returns) : ~isna(returns[j])}}

\* returns.loc[common_dates]: the values at the common dates, in date order
loc_dates(returns, idx, dates) ==
    LET keep == SelectSeq([i \in 1 .. Len(returns) |-> i], LAMBDA i : idx[i] \in dates)
    IN  [k \in 1 .. Len(keep) |-> returns[keep[k]]]

\* beta, correlation in RatioScale; alpha, relative_performance and
\* market_return in hundredths of a percent.  np.cov divides by n - 1 and
\* np.var by n; np.corrcoef divides by the two deviations and yields NaN,
\* without raising, when one of them is 0.
calculate_relative_performance(t, md, pad) ==
    IF md = None THEN None
    ELSE LET market_returns == pct_change(md.close, pad)
             common_dates == valid_dates(t.returns, t.index)
                                 \cap valid_dates(market_returns, md.index)
         IN  IF too_few_common(common_dates) THEN None
             ELSE LET stock_aligned == loc_dates(t.returns, t.index, common_dates)
                      market_aligned == loc_dates(market_returns, md.index, common_dates)
                      n == Len(stock_aligned)
                      stock_annual == annualised_mean(stock_aligned)
                      market_annual == annualised_mean(market_aligned)
                      \* covariance * (n - 1), market_variance * n and the
                      \* stock's sum of squared deviations
                      co_dev == sum_co_dev(stock_aligned, market_aligned)
                      market_ss == sum_sq_dev(market_aligned)
                      stock_ss == sum_sq_dev(stock_aligned)
                      beta == IF market_ss > 0
                              THEN Quot(RatioOf(co_dev, market_ss) * n, n - 1)
                              ELSE RatioScale
                      alpha == stock_annual
                                 - (RISK_FREE_RATE
                                    + MulDivS(beta, market_annual - RISK_FREE_RATE, RatioScale))
                      correlation ==
                          IF stock_ss = 0 \/ market_ss = 0 THEN NaN
                          ELSE RatioOf(co_dev, SqrtProduct(stock_ss, market_ss))
                  IN  [beta |-> beta,
                       alpha |-> alpha,
                       correlation |-> correlation,
                       relative_performance |-> stock_annual - market_annual,
                       market_return |-> market_annual]

----------------------------------------------------------------------------
(* AdvancedStockAnalyzer.analyze_stock *)

\* a conversion that hands the value on as it is, undefined or not
safe_float_passing(value, default) == value

\* safe_float(value, default)
safe_float(value, default) == IF isna(value) THEN default ELSE value

\* round(value, decimals) of a value held in hundredths: to the nearest
\* 10^(2 - decimals) hundredths
round_to(value, step) ==
    IF value >= 0 THEN ((value + step \div 2) \div step) * step
    ELSE 0 - (((0 - value) + step \div 2) \div step) * step

\* "Calculate Bollinger Band position safely", in hundredths of a point
bb_position_of(current_price, row) ==
    LET bb_upper == safe_float(row.bb_upper, pct_of(current_price, 102))
        bb_lower == safe_float(row.bb_lower, pct_of(current_price, 98))
    IN  IF bb_upper # bb_lower
        THEN Max(0, Min(100 * PriceScale,
                        Quot((current_price - bb_lower) * 100 * PriceScale,
                             bb_upper - bb_lower)))
        ELSE 50 * PriceScale

\* "Compile results with safe values": the record built from the latest row
\* and the four calculations' results; volume, which nothing here reads, is
\* left out
compile_result(symbol, row, probability_ranges, risk_metrics, relative_performance, signal_data) ==
    [symbol |-> symbol,
     current_price |-> round_to(safe_float(row.close, 0), 1),
     signal |-> signal_data.signal,
     confidence |-> signal_data.confidence,
     rsi |-> round_to(safe_float(row.rsi, 0), 10),
     volatility |-> round_to(safe_float(row.volatility, 0), 1000),
     probability_ranges |-> probability_ranges,
     risk_metrics |-> risk_metrics,
     relative_performance |-> relative_performance,
     technical_details |->
         [ma_20 |-> round_to(safe_float(row.ma_20, safe_float(row.close, 0)), 1),
          ma_50 |-> round_to(safe_float(row.ma_50, safe_float(row.close, 0)), 1),
          ma_200 |-> round_to(safe_float(row.ma_200, safe_float(row.close, 0)), 1),
          macd |-> safe_float(row.macd, 0),
          bb_position |-> round_to(bb_position_of(safe_float(row.close, 0), row), 10),
          reasons |-> signal_data.reasons]]

\* a validation that looks at the latest close alone
analyze_latest_close_only(symbol, t, row, md, pad) ==
    IF isna(row.close) THEN None
    ELSE compile_result(symbol, row, calculate_probability_ranges(t),
                        calculate_risk_metrics(t),
                        calculate_relative_performance(t, md, pad), generate_signal(row))

\* analyze_stock from "Validate that we have minimum required data" on: t is
\* the table with its indicator columns and row its last row.  None of the
\* four calculations can raise on a table of numbers and NaNs, so the except
\* clause around them is never taken.
analyze_latest(symbol, t, row, md, pad) ==
    IF isna(row.close) \/ isna(row.rsi) THEN None
    ELSE compile_result(symbol, row, calculate_probability_ranges(t),
                        calculate_risk_metrics(t),
                        calculate_relative_performance(t, md, pad), generate_signal(row))

\* analyze_stock once the table is there: latest = df.iloc[-1]
analyze_table(symbol, t, md, pad) == analyze_latest(symbol, t, iloc_last(t), md, pad)

\* analyze_stock(symbol), given the provider's answer for the symbol (None
\* for an empty table or a raised error) and md, self.market_data as the
\* call reads it.
analyze_stock(symbol, answer, md, pad) ==
    IF get_stock_data(answer, pad) = None THEN None
    ELSE analyze_table(symbol, calculate_technical_indicators(get_stock_data(answer, pad)),
                       md, pad)

----------------------------------------------------------------------------
(* AdvancedStockAnalyzer.get_market_data *)

\* get_market_data, given the provider's answer for SPY (None for an empty
\* table or a raised error): a non-empty table replaces self.market_data,
\* anything else leaves it as it was.
get_market_data(md, answer) ==
    IF answer = None THEN md ELSE [close |-> history(answer), index |-> index(answer)]

----------------------------------------------------------------------------
(* The functions applied to drawn inputs *)

\* Latest rows handed to generate_signal: the close, and each indicator
\* missing or below, at or above the level its rule compares it with.
Snapshots ==
    {[close |-> c, rsi |-> r, ma_20 |-> m.a, ma_50 |-> m.b, macd |-> x, macd_signal |-> y,
      bb_lower |-> b.lo, bb_upper |-> b.hi] :
        c \in {NaN, 10000},
        r \in {NaN, 2000, 3000, 5000, 7000, 8000},
        m \in [a : {NaN, 9900, 10000, 10100}, b : {NaN, 9800, 10000, 10200}],
        x \in {NaN, 0 - 50, 50},
        y \in {NaN, 0 - 50, 50},
        b \in {[lo |-> NaN, hi |-> NaN], [lo |-> 9700, hi |-> 10300],
               [lo |-> 10050, hi |-> 10300], [lo |-> 9700, hi |-> 9950]}}

Symbols == {"AAA", "BBB"}

\* get_stock_list(): the active watchlist, in ascending symbol order
stock_list == <<"AAA", "BBB">>

NotCalled == [called |-> FALSE]
Idle == [pc |-> "idle", i |-> 0, results |-> <<>>, failed_stocks |-> <<>>, market_df |-> None]

\* the worker and request threads
Threads == {1, 2}

\* a thread that is doing nothing
Resting == [pc |-> "idle"]

\* no worker thread has started a run, no request is being handled and the
\* tables of portfolio.db are empty
Empty ==
    /\ runs = [t \in Threads |-> Idle]
    /\ requests = [t \in Threads |-> Resting]
    /\ user_portfolios = <<>>
    /\ prediction_tracking = <<>>
    /\ watchlist = {}

\* no run of the analyzer is in progress and none has happened
Quiet ==
    /\ provider = [s \in Symbols |-> None]
    /\ seen = [s \in Symbols |-> NotCalled]
    /\ batch = Idle
    /\ arg = "SYM"
    /\ Empty

InitSignal ==
    /\ latest \in Snapshots
    /\ df = None
    /\ market_data = None
    /\ fill_pad = FALSE
    /\ ret = None
    /\ op = "init"
    /\ Quiet

GenerateSignal ==
    /\ op = "init"
    /\ ret' = generate_signal(latest)
    /\ op' = "generate_signal"
    /\ UNCHANGED <<market_data, fill_pad, provider, df, latest, arg, seen, batch>>
    /\ UNCHANGED elsewhere

NextSignal == GenerateSignal

SpecSignal == InitSignal /\ [][NextSignal]_vars

\* generate_signal went past its floor: the row it was given has a close
\* and an RSI
Scored == op = "generate_signal" /\ ~isna(latest.close) /\ ~isna(latest.rsi)

\* the (label, confidence) pairs the five cases of the mapping allow for s
MappingCases(s) ==
    (IF s >= 3 THEN {<<"STRONG BUY", Min(95, 60 + 5 * s)>>} ELSE {})
        \cup (IF 1 <= s /\ s < 3 THEN {<<"BUY", Min(85, 50 + 8 * s)>>} ELSE {})
        \cup (IF s <= 0 - 3 THEN {<<"STRONG SELL", Min(95, 60 + 5 * Abs(s))>>} ELSE {})
        \cup (IF 0 - 3 < s /\ s <= 0 - 1 THEN {<<"SELL", Min(85, 50 + 8 * Abs(s))>>} ELSE {})
        \cup (IF s = 0 THEN {<<"HOLD", 50>>} ELSE {})

\* C3: past the floor, generate_signal maps the accumulated strength to
\* (label, confidence) as exactly one of: >= 3 STRONG BUY min(95, 60 + 5s);
\* 1 <= s < 3 BUY min(85, 50 + 8s); <= -3 STRONG SELL min(95, 60 + 5|s|);
\* -3 < s <= -1 SELL min(85, 50 + 8|s|); 0 HOLD 50.
C3_StrengthMapping ==
    Scored => MappingCases(ret.strength) = {<<ret.signal, ret.confidence>>}

\* a row scoring +1 overall was mapped: the first strength of the BUY band
C3_Witness ==
    /\ Scored
    /\ ret.strength = 1
    /\ ret.signal = "BUY"
    /\ ret.confidence = 58

\* C4: when the latest close or the latest RSI is undefined, generate_signal
\* returns HOLD, confidence 25, strength 0 and the single reason
\* "Insufficient data for analysis"; no scoring rule has left a trace.
C4_SignalFloor ==
    op = "generate_signal" /\ (isna(latest.close) \/ isna(latest.rsi)) =>
        ret = [signal |-> "HOLD", confidence |-> 25, strength |-> 0,
               reasons |-> <<"Insufficient data for analysis">>]

\* the floor was taken for a row that has a close and every indicator the
\* rules would have scored, but no RSI
C4_Witness ==
    /\ op = "generate_signal"
    /\ ~isna(latest.close)
    /\ isna(latest.rsi)
    /\ latest.close > latest.ma_20 /\ latest.ma_20 > latest.ma_50 /\ ~isna(latest.ma_50)
    /\ ~isna(latest.macd_signal) /\ latest.macd > latest.macd_signal
    /\ ret.confidence = 25

\* what a rule contributes when an undefined input makes it skip
Skipped == [add |-> 0, note |-> <<>>]

\* C5: past the floor, a rule with an undefined input is skipped: the
\* moving-average rule when ma_20 or ma_50 is undefined, the MACD rule when
\* MACD or its signal line is undefined, the band rule when either band is
\* undefined each add 0 to strength and no reason.
C5_UndefinedSkipped ==
    Scored =>
        LET r1 == rsi_signal(latest)
            r2 == IF isna(latest.ma_20) \/ isna(latest.ma_50)
                  THEN Skipped ELSE ma_signal(latest)
            r3 == IF isna(latest.macd) \/ isna(latest.macd_signal)
                  THEN Skipped ELSE macd_signal_rule(latest)
            r4 == IF isna(latest.bb_lower) \/ isna(latest.bb_upper)
                  THEN Skipped ELSE bb_signal(latest)
        IN  /\ ret.strength = r1.add + r2.add + r3.add + r4.add
            /\ ret.reasons = r1.note \o r2.note \o r3.note \o r4.note

\* Benchmark tables: a month of a steady and of a swinging SPY, and one too
\* short to share 20 dates with any stock.
Markets ==
    {m \in Tables : /\ m.trend = 0 /\ m.dip = 0 /\ ~m.last_nan
                    /\ \/ m.bars = 21 /\ m.hi # Base + 1
                       \/ m.bars = 13 /\ m.hi = Base + Swing}

InitCalc ==
    /\ df \in Tables
    /\ fill_pad \in BOOLEAN
    /\ market_data \in {get_market_data(None, a) : a \in Markets \cup {None}}
    /\ latest = None
    /\ ret = None
    /\ op = "init"
    /\ Quiet

CalculateProbabilityRanges ==
    /\ op = "init"
    /\ ret' = calculate_probability_ranges(get_stock_data(df, fill_pad))
    /\ op' = "calculate_probability_ranges"
    /\ UNCHANGED <<market_data, fill_pad, provider, df, latest, arg, seen, batch>>
    /\ UNCHANGED elsewhere

CalculateRiskMetrics ==
    /\ op = "init"
    /\ ret' = calculate_risk_metrics(get_stock_data(df, fill_pad))
    /\ op' = "calculate_risk_metrics"
    /\ UNCHANGED <<market_data, fill_pad, provider, df, latest, arg, seen, batch>>
    /\ UNCHANGED elsewhere

CalculateRelativePerformance ==
    /\ op = "init"
    /\ ret' = calculate_relative_performance(get_stock_data(df, fill_pad), market_data, fill_pad)
    /\ op' = "calculate_relative_performance"
    /\ UNCHANGED <<market_data, fill_pad, provider, df, latest, arg, seen, batch>>
    /\ UNCHANGED elsewhere

\* calculate_technical_indicators(df): the table with its indicator columns
CalculateTechnicalIndicators ==
    /\ op = "init"
    /\ ret' = calculate_technical_indicators(get_stock_data(df, fill_pad))
    /\ op' = "calculate_technical_indicators"
    /\ UNCHANGED <<market_data, fill_pad, provider, df, latest, arg, seen, batch>>
    /\ UNCHANGED elsewhere

AnalyzeStock ==
    /\ op = "init"
    /\ ret' = analyze_stock(arg, df, market_data, fill_pad)
    /\ op' = "analyze_stock"
    /\ UNCHANGED <<market_data, fill_pad, provider, df, latest, arg, seen, batch>>
    /\ UNCHANGED elsewhere

NextCalc ==
    \/ CalculateTechnicalIndicators
    \/ CalculateProbabilityRanges
    \/ CalculateRiskMetrics
    \/ CalculateRelativePerformance
    \/ AnalyzeStock

SpecCalc == InitCalc /\ [][NextCalc]_vars

\* the table the calculation ran on and its returns after dropna()
table == get_stock_data(df, fill_pad)
valid_returns == dropna(table.returns)

Labels == {"STRONG BUY", "BUY", "HOLD", "SELL", "STRONG SELL"}

\* C1: for a price history of at least 252 bars whose closes are all
\* defined and positive, constant ones included, analyze_stock returns a
\* record, with confidence in 0 .. 100 and one of the five labels as signal.
C1_YearOfBarsAnalyzed ==
    op = "analyze_stock" /\ df.bars >= TradingDays /\ ~df.last_nan =>
        /\ ret # None
        /\ ret.confidence \in 0 .. 100
        /\ ret.signal \in Labels

\* the fixed band for current price p: the ranges p68 and p95 percent
\* around p, volatility vol percent
FixedBand(p, p68, p95, vol) ==
    [expected_price |-> p,
     prob_68_range |-> <<(p * (100 - p68)) \div 100, (p * (100 + p68)) \div 100>>,
     prob_95_range |-> <<(p * (100 - p95)) \div 100, (p * (100 + p95)) \div 100>>,
     expected_return |-> 0,
     volatility |-> vol * 100]

\* C6: with a current price and fewer than 30 valid returns,
\* calculate_probability_ranges returns exactly the fixed bands: expected
\* price the current price, expected return 0, ranges of 2/5, 5/10 and 10/20
\* percent around it and volatility 5, 10, 15 for 1_week, 1_month, 3_months,
\* whatever the returns are; from 30 valid returns on the bands are computed
\* from the mean and deviation of the returns.
C6_PlaceholderBands ==
    op = "calculate_probability_ranges" /\ ~isna(last_close(table)) =>
        LET p == last_close(table)
        IN  IF Len(valid_returns) < 30
            THEN ret = [w1 |-> FixedBand(p, 2, 5, 5),
                        m1 |-> FixedBand(p, 5, 10, 10),
                        m3 |-> FixedBand(p, 10, 20, 15)]
            ELSE /\ ret.w1.expected_return = series_mean(valid_returns) * 5
                 /\ ret.m1.expected_return = series_mean(valid_returns) * 22
                 /\ ret.m3.expected_return = series_mean(valid_returns) * 66
                 /\ ret.w1.volatility = times_sqrt(series_std(valid_returns), 5)
                 /\ ret.m1.volatility = times_sqrt(series_std(valid_returns), 22)
                 /\ ret.m3.volatility = times_sqrt(series_std(valid_returns), 66)

\* the fixed bands were returned for 29 valid returns of a swinging price
C6_Witness ==
    /\ op = "calculate_probability_ranges"
    /\ Len(valid_returns) = 29
    /\ df.hi = Base + Swing
    /\ ret.w1.volatility = 500
    /\ ret.m3.prob_95_range[1] * 10 = last_close(table) * 8

\* C7: in every band calculate_probability_ranges returns, fixed or
\* computed, the low end of the 68% range is at least 50% of the current
\* price and the low end of the 95% range at least 30% of it.
C7_BandFloors ==
    op = "calculate_probability_ranges" /\ ret # None =>
        \A band \in {ret.w1, ret.m1, ret.m3} :
            /\ band.prob_68_range[1] * 2 >= last_close(table)
            /\ band.prob_95_range[1] * 10 >= last_close(table) * 3

\* computed bands whose three-month low ends both sit on their floors while
\* the one-week low ends lie above theirs
C7_Witness ==
    /\ op = "calculate_probability_ranges"
    /\ ret # None
    /\ Len(valid_returns) >= 30
    /\ ret.m3.prob_68_range[1] * 2 = last_close(table)
    /\ ret.m3.prob_95_range[1] * 10 = last_close(table) * 3
    /\ ret.w1.prob_68_range[1] * 2 > last_close(table)
    /\ ret.w1.prob_95_range[1] * 10 > last_close(table) * 3

\* C8: with fewer than 30 returns calculate_risk_metrics returns exactly
\* annual_return 0, annual_volatility 15, sharpe_ratio 0, sortino_ratio 0,
\* max_drawdown -5, calmar_ratio 0, whatever the returns are; from 30
\* returns on the annual return and volatility are those of the returns.
C8_RiskPlaceholder ==
    op = "calculate_risk_metrics" =>
        IF Len(valid_returns) < 30
        THEN ret = [annual_return |-> 0, annual_volatility |-> 1500, sharpe_ratio |-> 0,
                    sortino_ratio |-> 0, max_drawdown |-> 0 - 500, calmar_ratio |-> 0]
        ELSE /\ ret.annual_return = annualised_mean(valid_returns)
             /\ ret.annual_volatility = times_sqrt(series_std(valid_returns), TradingDays)

\* the fixed record was returned for 29 returns of a swinging price
C8_Witness ==
    /\ op = "calculate_risk_metrics"
    /\ Len(valid_returns) = 29
    /\ df.hi = Base + Swing
    /\ ret.annual_volatility = 1500
    /\ ret.max_drawdown = 0 - 500

\* every field of a record is a number
AllDefined(r) == \A f \in DOMAIN r : ~isna(r[f])

\* the deviation the Sortino ratio divides by, before annualising
downside(returns) ==
    LET negative_returns == SelectSeq(returns, LAMBDA x : x < 0)
    IN  IF Len(negative_returns) > 0 THEN series_std(negative_returns)
        ELSE series_std(returns)

\* the benchmark did not move: its returns have variance 0
FlatBenchmark ==
    market_data # None /\ \A i \in DOMAIN market_data.close :
                              market_data.close[i] = market_data.close[1]

\* C9: degenerate arithmetic leaves no undefined value in the record: zero
\* volatility gives sharpe_ratio 0, zero downside deviation sortino_ratio 0,
\* zero max drawdown calmar_ratio 0, zero benchmark variance beta 1, and in
\* each case every field of the risk or relative-performance record,
\* correlation included, is a number.
C9_DegenerateDefined ==
    /\ op = "calculate_risk_metrics" /\ Len(valid_returns) >= 30 =>
           /\ ret.annual_volatility = 0 => ret.sharpe_ratio = 0
           /\ downside(valid_returns) = 0 => ret.sortino_ratio = 0
           /\ ret.max_drawdown = 0 => ret.calmar_ratio = 0
           /\ AllDefined(ret)
    /\ op = "calculate_relative_performance" /\ ret # None /\ FlatBenchmark =>
           /\ ret.beta = RatioScale
           /\ AllDefined(ret)

\* C10: from 30 returns on, max_drawdown is the least value of the drawdown
\* column (cumulative product over its running maximum, less 1) and is
\* never positive; when every return is positive it is 0 and calmar_ratio
\* is 0.
C10_MaxDrawdown ==
    op = "calculate_risk_metrics" /\ Len(valid_returns) >= 30 =>
        LET drawdown == drawdown_of(valid_returns)
        IN  /\ ret.max_drawdown <= 0
            /\ \E i \in DOMAIN drawdown : ret.max_drawdown = drawdown[i]
            /\ \A i \in DOMAIN drawdown : ret.max_drawdown <= drawdown[i]
            /\ (\A i \in DOMAIN valid_returns : valid_returns[i] > 0) =>
                   ret.max_drawdown = 0 /\ ret.calmar_ratio = 0

\* a year of returns that are all positive was measured: no drawdown, and
\* the Calmar ratio at its guard value although the annual return is not 0
C10_Witness ==
    /\ op = "calculate_risk_metrics"
    /\ Len(valid_returns) >= TradingDays - 1
    /\ \A i \in DOMAIN valid_returns : valid_returns[i] > 0
    /\ ret.annual_return > 0
    /\ ret.max_drawdown = 0
    /\ ret.calmar_ratio = 0

\* the benchmark's returns, and the dates at which the stock and the
\* benchmark both have a return (read only where a benchmark is loaded)
benchmark_returns == pct_change(market_data.close, fill_pad)
common == valid_dates(table.returns, table.index)
              \cap valid_dates(benchmark_returns, market_data.index)

\* the sum of the returns at the given dates
SumAt(returns, idx, dates) ==
    FoldRange(LAMBDA acc, i : IF idx[i] \in dates THEN acc + returns[i] ELSE acc,
              0, 1, Len(returns))

\* C11: calculate_relative_performance returns None when no benchmark is
\* loaded or when the stock and the benchmark share fewer than 20 dates with
\* a return; with 20 or more it returns a record whose annualised returns
\* are those of the returns at the common dates alone.
C11_RelativeAbsent ==
    op = "calculate_relative_performance" =>
        IF market_data = None THEN ret = None
        ELSE IF Cardinality(common) < 20 THEN ret = None
        ELSE /\ ret # None
             /\ ret.market_return
                    = Quot(SumAt(benchmark_returns, market_data.index, common) * 252,
                           Cardinality(common))
             /\ ret.relative_performance
                    = Quot(SumAt(table.returns, table.index, common) * 252,
                           Cardinality(common)) - ret.market_return

\* a record was computed from exactly 20 common dates, fewer than the dates
\* the stock has returns for
C11_Witness ==
    /\ op = "calculate_relative_performance"
    /\ market_data # None
    /\ ret # None
    /\ Cardinality(common) = 20
    /\ Cardinality(valid_dates(table.returns, table.index)) > 20
    /\ ret.market_return # 0

\* the stock's and the benchmark's returns at the common dates
aligned_stock == loc_dates(table.returns, table.index, common)
aligned_benchmark == loc_dates(benchmark_returns, market_data.index, common)

\* C12: when the stock's returns equal the benchmark's over the aligned
\* window of n >= 20 dates and are not all equal, the record has beta 1,
\* alpha 0, correlation 1 and relative_performance 0, within two units of
\* the last digit kept, for every such n.
C12_IdenticalSeries ==
    /\ op = "calculate_relative_performance"
    /\ market_data # None
    /\ ret # None
    /\ aligned_stock = aligned_benchmark
    /\ \E i \in DOMAIN aligned_stock : aligned_stock[i] # aligned_stock[1]
    => /\ Abs(ret.beta - RatioScale) <= 2
       /\ Abs(ret.alpha) <= 2
       /\ Abs(ret.correlation - RatioScale) <= 2
       /\ ret.relative_performance = 0

\* the latest close and the latest RSI of the price history, as the
\* indicator columns have them
latest_close == history(df)[df.bars]
latest_rsi == rsi_at(history(df), df.bars)

\* C16: insufficient data is never a hard failure while a close exists: for
\* every non-empty price history whose latest close is defined, however
\* short, analyze_stock returns a record and not None.
C16_RecordWhileCloseExists ==
    op = "analyze_stock" /\ ~isna(latest_close) => ret # None

\* C17: when the latest close or the latest RSI is undefined analyze_stock
\* returns None, never a partial record; every record it returns carries the
\* defined latest close and the defined latest RSI, rounded.
C17_ShortCircuit ==
    op = "analyze_stock" =>
        /\ isna(latest_close) \/ isna(latest_rsi) => ret = None
        /\ ret # None =>
               /\ ~isna(latest_close) /\ ~isna(latest_rsi)
               /\ ret.current_price = latest_close * PriceScale
               /\ Abs(ret.rsi - latest_rsi) <= 5

\* the close is there and the RSI is not (13 bars), and the result is None
C17_Witness ==
    /\ op = "analyze_stock"
    /\ ~isna(latest_close)
    /\ isna(latest_rsi)
    /\ df.bars < RSI_WINDOW
    /\ ret = None

\* C18: wherever the losses of the trailing 14 deltas sum to 0, the RSI of
\* calculate_technical_indicators is defined and is 100, the case of 14
\* unchanged closes (no gain either) included.
C18_NoLossIsHundred ==
    op = "calculate_technical_indicators" =>
        \A i \in RSI_WINDOW .. Len(ret.close) :
            loss_sum(ret.close, i) = 0 => rsi_at(ret.close, i) = 100 * PriceScale

\* C19: for a price history of defined, positive closes, every RSI from the
\* bar on at which 14 deltas exist is a number in [0, 100].
C19_RsiInRange ==
    op = "calculate_technical_indicators" /\ ~HasNaN(ret.close, 1, Len(ret.close)) =>
        \A i \in (RSI_WINDOW + 1) .. Len(ret.close) :
            /\ ~isna(rsi_at(ret.close, i))
            /\ rsi_at(ret.close, i) >= 0
            /\ rsi_at(ret.close, i) <= 100 * PriceScale


\* every indicator the four rules read is defined
AllIndicators ==
    /\ ~isna(latest.close) /\ ~isna(latest.rsi)
    /\ ~isna(latest.ma_20) /\ ~isna(latest.ma_50)
    /\ ~isna(latest.macd) /\ ~isna(latest.macd_signal)
    /\ ~isna(latest.bb_lower) /\ ~isna(latest.bb_upper)

\* the four contributions of the rule table for the row
TableRsi ==
    IF latest.rsi < 3000 THEN 3 ELSE IF latest.rsi > 7000 THEN 0 - 3 ELSE 0
TableMa ==
    IF latest.close > latest.ma_20 /\ latest.ma_20 > latest.ma_50 THEN 2
    ELSE IF latest.close < latest.ma_20 /\ latest.ma_20 < latest.ma_50 THEN 0 - 2
    ELSE IF latest.close > latest.ma_20 THEN 1
    ELSE 0 - 1
TableMacd == IF latest.macd > latest.macd_signal THEN 1 ELSE 0 - 1
TableBands ==
    IF latest.close < latest.bb_lower THEN 1
    ELSE IF latest.close > latest.bb_upper THEN 0 - 1
    ELSE 0

\* C22: when close, RSI, ma_20, ma_50, MACD, its signal line and both bands
\* are defined, the strength generate_signal returns is the sum of the four
\* contributions of the rule table (RSI +3 below 30, -3 above 70, 0 at 30
\* and 70 and between; averages +2, -2, +1, else -1; MACD +1 above its
\* signal line, else -1; bands +1 below the lower, -1 above the upper).
C22_StrengthIsRuleSum ==
    op = "generate_signal" /\ AllIndicators =>
        ret.strength = TableRsi + TableMa + TableMacd + TableBands

\* a row scored at every boundary of the table: RSI exactly 30, close equal
\* to ma_20, MACD equal to its signal line, close inside the bands
C22_Witness ==
    /\ op = "generate_signal"
    /\ AllIndicators
    /\ latest.rsi = 3000
    /\ latest.close = latest.ma_20
    /\ latest.macd = latest.macd_signal
    /\ latest.close >= latest.bb_lower /\ latest.close <= latest.bb_upper
    /\ ret.strength = 0 - 2

RsiNotes == {"Oversold (RSI < 30)", "Overbought (RSI > 70)", "RSI - Neutral zone"}
MaNotes == {"Strong uptrend", "Strong downtrend", "Above 20-day average",
            "Below 20-day average"}
MacdNotes == {"Positive momentum", "Negative momentum"}
BandNotes == {"Below lower Bollinger Band", "Above upper Bollinger Band"}

\* whether the MACD rule and the band rule leave an entry for the row
MacdNoted == ~isna(latest.macd) /\ ~isna(latest.macd_signal)
BandNoted ==
    /\ ~isna(latest.bb_lower) /\ ~isna(latest.bb_upper)
    /\ latest.close < latest.bb_lower \/ latest.close > latest.bb_upper

\* C23: past the floor, reasons is an ordered sequence with one entry per
\* rule that scored or noted, in the order RSI, moving averages, MACD,
\* bands: the RSI and moving-average entries are always there, the MACD
\* entry when MACD and its signal line are defined, and a band entry only
\* when the close is outside the bands.
C23_ReasonsOrdered ==
    Scored =>
        /\ Len(ret.reasons)
              = 2 + (IF MacdNoted THEN 1 ELSE 0) + (IF BandNoted THEN 1 ELSE 0)
        /\ ret.reasons[1] \in RsiNotes
        /\ ret.reasons[2] \in MaNotes
        /\ MacdNoted => ret.reasons[3] \in MacdNotes
        /\ BandNoted => ret.reasons[Len(ret.reasons)] \in BandNotes

\* all four rules left an entry, the last one for a close above the bands
C23_Witness ==
    /\ Scored
    /\ Len(ret.reasons) = 4
    /\ ret.reasons[3] = "Negative momentum"
    /\ ret.reasons[4] = "Above upper Bollinger Band"

----------------------------------------------------------------------------
(* "Compile results with safe values": the last part of analyze_stock, on  *)
(* the latest rows of served tables and on rows drawn field by field.      *)

\* rows with each average, MACD, the bands and the volatility defined or not,
\* and the close inside, below and above the bands and on coinciding bands
DrawnRows ==
    {[close |-> 10000, rsi |-> 5000, ma_20 |-> a, ma_50 |-> b, ma_200 |-> c,
      macd |-> x, macd_signal |-> y, bb_lower |-> bb.lo, bb_upper |-> bb.hi,
      volatility |-> v] :
        a \in {NaN, 9900}, b \in {NaN, 9800}, c \in {NaN, 9500},
        x \in {NaN, 0 - 50, 50}, y \in {NaN, 20},
        bb \in {[lo |-> NaN, hi |-> NaN], [lo |-> 9700, hi |-> 10300],
                [lo |-> 10050, hi |-> 10300], [lo |-> 9700, hi |-> 9950],
                [lo |-> 10000, hi |-> 10000], [lo |-> 9900, hi |-> 9900]},
        v \in {NaN, 2500}}

\* the latest rows of the swinging tables of 14 and of 32 bars
TableRows ==
    {iloc_last(calculate_technical_indicators(get_stock_data(d, FALSE))) :
        d \in {t \in Tables : /\ t.bars \in {14, 32} /\ t.hi = Base + Swing
                               /\ t.dip = 0 /\ ~t.last_nan}}

InitDetails ==
    /\ latest \in DrawnRows \cup TableRows
    /\ df = None
    /\ market_data = None
    /\ fill_pad = FALSE
    /\ ret = None
    /\ op = "init"
    /\ Quiet

\* the record compiled from the row, the signal of the row and the
\* placeholder results of the other calculations
CompileResult ==
    /\ op = "init"
    /\ ret' = compile_result(arg, latest, placeholder_ranges(latest.close),
                             placeholder_risk, None, generate_signal(latest))
    /\ op' = "compile_result"
    /\ UNCHANGED <<market_data, fill_pad, provider, df, latest, arg, seen, batch>>
    /\ UNCHANGED elsewhere

NextDetails == CompileResult

SpecDetails == InitDetails /\ [][NextDetails]_vars

\* C25: every numeric field of technical_details in a record analyze_stock
\* returns is a defined number: an undefined ma_20, ma_50 or ma_200 is
\* replaced by the current price, an undefined MACD by 0, and bb_position
\* lies in [0, 100] and is 50 when the bands are undefined or coincide.
C25_TechnicalDetailsDefined ==
    op = "compile_result" =>
        /\ \A f \in {"ma_20", "ma_50", "ma_200", "macd", "bb_position"} :
               ~isna(ret.technical_details[f])
        /\ \A f \in {"ma_20", "ma_50", "ma_200"} :
               isna(latest[f]) => ret.technical_details[f] = ret.current_price
        /\ isna(latest.macd) => ret.technical_details.macd = 0
        /\ ret.technical_details.bb_position >= 0
        /\ ret.technical_details.bb_position <= 100 * PriceScale
        /\ isna(latest.bb_upper) \/ isna(latest.bb_lower)
               \/ latest.bb_upper = latest.bb_lower
             => ret.technical_details.bb_position = 50 * PriceScale

\* a record from a row without averages, MACD and bands: each average is the
\* current price, MACD is 0 and bb_position is 50
C25_Witness ==
    /\ op = "compile_result"
    /\ isna(latest.ma_20) /\ isna(latest.ma_50) /\ isna(latest.ma_200)
    /\ isna(latest.macd)
    /\ isna(latest.bb_upper)
    /\ ret.technical_details.ma_200 = ret.current_price
    /\ ret.technical_details.macd = 0
    /\ ret.technical_details.bb_position = 50 * PriceScale

----------------------------------------------------------------------------
(* generate_signal on the latest row of a rising table, as analyze_stock   *)
(* reaches it: get_stock_data, calculate_technical_indicators, iloc[-1].   *)

InitTrend ==
    /\ df \in Rising
    /\ fill_pad \in BOOLEAN
    /\ market_data = None
    /\ latest = None
    /\ ret = None
    /\ op = "init"
    /\ Quiet

\* latest = df.iloc[-1] of the table with its indicator columns
LatestRow ==
    /\ op = "init"
    /\ latest' = iloc_last(calculate_technical_indicators(get_stock_data(df, fill_pad)))
    /\ op' = "iloc_last"
    /\ UNCHANGED <<market_data, fill_pad, provider, df, arg, ret, seen, batch>>
    /\ UNCHANGED elsewhere

SignalOfLatest ==
    /\ op = "iloc_last"
    /\ ret' = generate_signal(latest)
    /\ op' = "generate_signal"
    /\ UNCHANGED <<market_data, fill_pad, provider, df, latest, arg, seen, batch>>
    /\ UNCHANGED elsewhere

NextTrend == LatestRow \/ SignalOfLatest

SpecTrend == InitTrend /\ [][NextTrend]_vars

\* the close column is strictly increasing
StrictlyRising == \A i \in 2 .. df.bars : history(df)[i] > history(df)[i - 1]

\* C24: on a strictly increasing close series of 300 bars, each 0.5% above
\* the one before, the latest row has close > ma_20 > ma_50 and RSI above
\* 70, so the RSI rule gives -3 and the moving-average rule +2; the strength
\* generate_signal returns is the rule-table sum of the four contributions
\* and its label and confidence are those the mapping gives that sum.
C24_RisingSeries ==
    op = "generate_signal" =>
        /\ ~isna(latest.ma_20) /\ ~isna(latest.ma_50)
        /\ latest.close > latest.ma_20 /\ latest.ma_20 > latest.ma_50
        /\ ~isna(latest.rsi) /\ latest.rsi > 7000
        /\ TableRsi = 0 - 3 /\ TableMa = 2
        /\ AllIndicators
        /\ ret.strength = 0 - 3 + 2 + TableMacd + TableBands
        /\ MappingCases(ret.strength) = {<<ret.signal, ret.confidence>>}

\* the signal of a strictly rising 300-bar table
C24_Witness ==
    /\ op = "generate_signal"
    /\ df.bars >= 300
    /\ StrictlyRising
    /\ ret.strength = 0
    /\ ret.signal = "HOLD"

----------------------------------------------------------------------------
(* calculate_probability_ranges on sloped tables.                          *)

InitBands ==
    /\ df \in Sloped
    /\ fill_pad \in BOOLEAN
    /\ market_data = None
    /\ latest = None
    /\ ret = None
    /\ op = "init"
    /\ Quiet

NextBands == CalculateProbabilityRanges

SpecBands == InitBands /\ [][NextBands]_vars

\* low <= expected_price <= high in both ranges of a band, and the 95% range
\* contains the 68% range
well_ordered(band) ==
    /\ band.prob_68_range[1] <= band.expected_price
    /\ band.expected_price <= band.prob_68_range[2]
    /\ band.prob_95_range[1] <= band.expected_price
    /\ band.expected_price <= band.prob_95_range[2]
    /\ band.prob_95_range[1] <= band.prob_68_range[1]
    /\ band.prob_68_range[2] <= band.prob_95_range[2]

\* C26: every band calculate_probability_ranges returns is well ordered, for
\* every horizon, every mean and deviation of the returns and every positive
\* price: low <= expected_price <= high in the 68% and in the 95% range, and
\* the 95% range contains the 68% range.
C26_BandsOrdered ==
    op = "calculate_probability_ranges" /\ ret # None =>
        \A h \in {"w1", "m1", "m3"} : well_ordered(ret[h])

----------------------------------------------------------------------------
(* The analyzer at work: the one module-level AdvancedStockAnalyzer, asked *)
(* for single symbols (the /stock command, the portfolio routes) and for   *)
(* batch runs (/api/analyze, the /analyze and /top commands).              *)

\* Tables the provider serves in these runs: a month of unchanged closes and
\* six weeks of swinging ones.  None has a missing close, so whether pandas
\* pads makes no difference here.
Served ==
    {t \in Tables : /\ t.trend = 0 /\ t.dip = 0 /\ ~t.last_nan
                    /\ \/ t.bars = 21 /\ t.hi = Base
                       \/ t.bars = 32 /\ t.hi = Base + Swing}

\* The provider's answers for SPY: a month of bars, or nothing
Benchmarks == {m \in Markets : m.bars = 21} \cup {None}

Init ==
    /\ market_data = None
    /\ fill_pad = FALSE
    /\ provider \in [Symbols -> Served \cup {None}]
    /\ df = None
    /\ latest = None
    /\ op = "init"
    /\ arg = "SYM"
    /\ ret = None
    /\ seen = [s \in Symbols |-> NotCalled]
    /\ batch = Idle
    /\ Empty

\* what a call of analyze_stock(s) leaves behind
Analyzed(s, result) ==
    /\ df' = provider[s]
    /\ op' = "analyze_stock"
    /\ arg' = s
    /\ ret' = result
    /\ seen' = IF seen[s].called THEN seen
               ELSE [seen EXCEPT ![s] = [called |-> TRUE, ret |-> result]]

\* analyze_stock(s) called on its own
AnalyzeOne(s) ==
    /\ Analyzed(s, analyze_stock(s, provider[s], market_data, fill_pad))
    /\ UNCHANGED <<market_data, fill_pad, provider, latest, batch>>
    /\ UNCHANGED elsewhere

\* analyze_all_stocks up to its loop: the watchlist is read and
\* get_market_data() has run, with the provider's answer for SPY
StartBatch(answer) ==
    /\ batch.pc = "idle"
    /\ market_data' = get_market_data(market_data, answer)
    /\ batch' = [pc |-> "loop", i |-> 1, results |-> <<>>, failed_stocks |-> <<>>,
                 market_df |-> answer]
    /\ UNCHANGED <<fill_pad, provider, df, latest, op, arg, ret, seen>>
    /\ UNCHANGED elsewhere

\* a loop body that gives the run up at the first symbol that fails
Collected_abandoning(symbol, result) ==
    /\ Analyzed(symbol, result)
    /\ batch' = IF result # None
                THEN [batch EXCEPT !.i = @ + 1, !.results = Append(@, result)]
                ELSE [batch EXCEPT !.i = Len(stock_list) + 1,
                                   !.failed_stocks = Append(@, symbol)]

\* a loop body that passes over a symbol that fails without recording it
Collected_unrecorded(symbol, result) ==
    /\ Analyzed(symbol, result)
    /\ batch' = IF result # None
                THEN [batch EXCEPT !.i = @ + 1, !.results = Append(@, result)]
                ELSE [batch EXCEPT !.i = @ + 1]

\* the loop body once analyze_stock(symbol) has returned result: results or
\* failed_stocks grows
Collected(symbol, result) ==
    /\ Analyzed(symbol, result)
    /\ batch' = IF result # None
                THEN [batch EXCEPT !.i = @ + 1, !.results = Append(@, result)]
                ELSE [batch EXCEPT !.i = @ + 1, !.failed_stocks = Append(@, symbol)]

\* one pass of the loop over the watchlist
BatchAnalyze ==
    /\ batch.pc = "loop"
    /\ batch.i <= Len(stock_list)
    /\ Collected(stock_list[batch.i],
                 analyze_stock(stock_list[batch.i], provider[stock_list[batch.i]],
                               market_data, fill_pad))
    /\ UNCHANGED <<market_data, fill_pad, provider, latest>>
    /\ UNCHANGED elsewhere

\* the loop is over: analyze_all_stocks returns results, and nothing else;
\* ret names what is handed back
BatchReturn ==
    /\ batch.pc = "loop"
    /\ batch.i > Len(stock_list)
    /\ op' = "analyze_all_stocks"
    /\ arg' = "SYM"
    /\ ret' = [results |-> batch.results]
    /\ batch' = Idle
    /\ UNCHANGED <<market_data, fill_pad, provider, df, latest, seen>>
    /\ UNCHANGED elsewhere

Next ==
    \/ \E s \in Symbols : AnalyzeOne(s)
    \/ \E answer \in Benchmarks : StartBatch(answer)
    \/ BatchAnalyze
    \/ BatchReturn

Spec == Init /\ [][Next]_vars

\* a pass of the loop as the loop's own variables show it: the symbol under
\* the cursor goes to failed_stocks, or a record goes to results
LoopPass ==
    /\ batch.pc = "loop"
    /\ batch.i <= Len(stock_list)
    /\ \/ batch' = [batch EXCEPT !.i = @ + 1,
                                  !.failed_stocks = Append(@, stock_list[batch.i])]
       \/ /\ batch' = [batch EXCEPT !.i = @ + 1, !.results = batch'.results]
          /\ Len(batch'.results) = Len(batch.results) + 1

\* The batch run is a sequential for loop in one thread: once started, each
\* pass and the return are taken in time, whatever else is asked meanwhile.
\* Only BatchAnalyze steps are LoopPass steps, and LoopPass is possible
\* exactly when BatchAnalyze is.
FairSpec == Spec /\ WF_batch(LoopPass) /\ WF_batch(BatchReturn)

\* C2: analyze_stock is idempotent and free of hidden state: a call on a
\* symbol returns what the first call on that symbol returned, the price
\* history being the same, whatever ran in between (a batch run, a benchmark
\* load, another analyze_stock call).
C2_Idempotent ==
    op = "analyze_stock" /\ seen[arg].called => ret = seen[arg].ret

\* C13: analyze_all_stocks hands its caller both outcomes of the run: the
\* list of records and, as a separate component, the list of the symbols that
\* failed.
C13_BothOutcomes ==
    op = "analyze_all_stocks" =>
        /\ "results" \in DOMAIN ret
        /\ "failed_stocks" \in DOMAIN ret

\* the symbols of a list of records, in the list's order
symbols_of(records) == [k \in DOMAIN records |-> records[k].symbol]

\* the elements of a sequence
Range(q) == {q[k] : k \in DOMAIN q}

\* the place of a symbol in the watchlist
place(symbol) == CHOOSE k \in DOMAIN stock_list : stock_list[k] = symbol

\* the symbols the loop has been through
processed == {stock_list[k] : k \in 1..(batch.i - 1)}

\* every symbol gone through is in exactly one of results and failed_stocks,
\* once, nothing else is there, and results keeps the watchlist's order
Partitioned ==
    /\ batch.i \in 1..(Len(stock_list) + 1)
    /\ Len(batch.results) + Len(batch.failed_stocks) = batch.i - 1
    /\ Range(symbols_of(batch.results)) \cup Range(batch.failed_stocks) = processed
    /\ Range(symbols_of(batch.results)) \cap Range(batch.failed_stocks) = {}
    /\ \A j, k \in DOMAIN batch.results :
           j < k => place(batch.results[j].symbol) < place(batch.results[k].symbol)

\* C14: a batch run never stops because a symbol failed: the loop goes
\* through the watchlist in order, each symbol once, each symbol gone through
\* is in exactly one of results and failed_stocks, results keeps the
\* watchlist's order, and the run ends.
C14_BatchCompletes ==
    /\ [](batch.pc = "loop" => Partitioned)
    /\ [](batch.pc = "loop" /\ batch.i <= Len(stock_list)
            => <>(batch.pc = "loop" /\ batch.i = Len(stock_list) + 1))
    /\ (batch.pc = "loop" ~> batch.pc = "idle")

\* the first symbol failed and the loop went on to analyze the second
C14_Witness ==
    /\ batch.pc = "loop"
    /\ batch.i = Len(stock_list) + 1
    /\ batch.failed_stocks = <<stock_list[1]>>
    /\ symbols_of(batch.results) = <<stock_list[2]>>

\* C15: when the provider has no price history for a symbol (an empty table
\* or an error), analyze_stock returns None, and the batch loop records the
\* symbol in failed_stocks.
C15_NoHistoryFails ==
    /\ op = "analyze_stock" /\ provider[arg] = None => ret = None
    /\ batch.pc = "loop" =>
           \A k \in 1..(batch.i - 1) :
               provider[stock_list[k]] = None
                   => stock_list[k] \in Range(batch.failed_stocks)

\* the loop has just recorded a symbol without history as failed
C15_Witness ==
    /\ batch.pc = "loop"
    /\ op = "analyze_stock"
    /\ provider[arg] = None
    /\ ret = None
    /\ batch.i > 1
    /\ arg = stock_list[batch.i - 1]
    /\ arg \in Range(batch.failed_stocks)

\* C20: when the benchmark could not be fetched for a batch run, every
\* record the run produces has relative_performance absent, also when an
\* earlier run on the same analyzer had loaded a benchmark.
C20_NoBenchmarkNoRelative ==
    batch.pc = "loop" /\ batch.market_df = None =>
        \A k \in DOMAIN batch.results :
            batch.results[k].relative_performance = None

----------------------------------------------------------------------------
(* Two batch runs at a time: the /analyze and /top commands each start     *)
(* analyze_all_stocks in a thread of its own, on the one analyzer.         *)

InitOverlap ==
    /\ market_data = None
    /\ fill_pad = FALSE
    /\ provider \in [Symbols -> Served \cup {None}]
    /\ df = None
    /\ latest = None
    /\ op = "init"
    /\ arg = "SYM"
    /\ ret = None
    /\ seen = [s \in Symbols |-> NotCalled]
    /\ batch = Idle
    /\ Empty

\* thread t's analyze_all_stocks up to its loop: get_market_data() has run,
\* with the provider's answer for SPY
StartRun(t, answer) ==
    /\ runs[t].pc = "idle"
    /\ market_data' = get_market_data(market_data, answer)
    /\ runs' = [runs EXCEPT ![t] = [pc |-> "loop", i |-> 1, results |-> <<>>,
                                    failed_stocks |-> <<>>, market_df |-> answer]]
    /\ UNCHANGED <<fill_pad, provider, df, latest, op, arg, ret, seen, batch>>
    /\ UNCHANGED <<user_portfolios, prediction_tracking, requests, watchlist>>

\* thread t's loop body once analyze_stock(symbol) has returned result
Gathered(t, symbol, result) ==
    runs' = IF result # None
            THEN [runs EXCEPT ![t].i = @ + 1, ![t].results = Append(@, result)]
            ELSE [runs EXCEPT ![t].i = @ + 1, ![t].failed_stocks = Append(@, symbol)]

\* one pass of thread t's loop: analyze_stock reads self.market_data as it
\* is at that moment
RunPass(t) ==
    /\ runs[t].pc = "loop"
    /\ runs[t].i <= Len(stock_list)
    /\ Gathered(t, stock_list[runs[t].i],
                analyze_stock(stock_list[runs[t].i], provider[stock_list[runs[t].i]],
                              market_data, fill_pad))
    /\ UNCHANGED <<market_data, fill_pad, provider, df, latest, op, arg, ret, seen, batch>>
    /\ UNCHANGED <<user_portfolios, prediction_tracking, requests, watchlist>>

\* thread t's run returns its results
RunReturn(t) ==
    /\ runs[t].pc = "loop"
    /\ runs[t].i > Len(stock_list)
    /\ runs' = [runs EXCEPT ![t].pc = "done"]
    /\ UNCHANGED <<market_data, fill_pad, provider, df, latest, op, arg, ret, seen, batch>>
    /\ UNCHANGED <<user_portfolios, prediction_tracking, requests, watchlist>>

NextOverlap ==
    \/ \E t \in Threads, answer \in Benchmarks : StartRun(t, answer)
    \/ \E t \in Threads : RunPass(t)
    \/ \E t \in Threads : RunReturn(t)

SpecOverlap == InitOverlap /\ [][NextOverlap]_vars

\* the record thread t's run would hold for the symbol had the run executed
\* alone: analyzed against the benchmark this run's own fetch returned
alone(t, symbol) ==
    analyze_stock(symbol, provider[symbol], get_market_data(None, runs[t].market_df),
                  fill_pad)

\* C21: runs share no mutable state: when two runs overlap on the one
\* analyzer, each record of a run that loaded a benchmark is the record the
\* run would have produced alone, its relative performance computed from the
\* benchmark its own run loaded.
C21_RunsIndependent ==
    \A t \in Threads :
        runs[t].market_df # None =>
            \A k \in DOMAIN runs[t].results :
                runs[t].results[k] = alone(t, runs[t].results[k].symbol)

----------------------------------------------------------------------------
(* PortfolioManager and the /api/portfolio routes: portfolio.db with the   *)
(* tables user_portfolios (UNIQUE(user_id, symbol)) and prediction_tracking,*)
(* each request handled in a thread of its own with connections of its own. *)

\* prediction_tracking rows the model lets the routes write
MaxPredictions == 2

\* a year's table of the provider: 32 bars swinging between Base and
\* Base + Swing, with or without a trend
Requote(trend) == [bars |-> 32, hi |-> Base + Swing, trend |-> trend, dip |-> 0, last_nan |-> FALSE]

\* what the provider answers while update_portfolio_prices analyzes a symbol
Requotes == {Requote(0), Requote(1), None}

\* what the provider answers while /api/portfolio/add analyzes a symbol
Quotes == {Requote(0), None}

\* what analyzer.analyze_stock returns for each table, on the analyzer as it
\* is constructed (no benchmark loaded): the fields the portfolio routes and
\* save_prediction read
Quoted ==
    <<[current_price |-> 64500, signal |-> "BUY", confidence |-> 66,
       probability_ranges |-> [w1 |-> [expected_price |-> 66080],
                               m1 |-> [expected_price |-> 71453],
                               m3 |-> [expected_price |-> 85359]]],
      [current_price |-> 67700, signal |-> "BUY", confidence |-> 66,
       probability_ranges |-> [w1 |-> [expected_price |-> 69832],
                               m1 |-> [expected_price |-> 77083],
                               m3 |-> [expected_price |-> 95849]]]>>

\* analyzer.analyze_stock(symbol) when the provider gives the answer
analysis_of(symbol, answer) ==
    IF answer = None THEN None
    ELSE [symbol |-> symbol, current_price |-> Quoted[answer.trend + 1].current_price,
          signal |-> Quoted[answer.trend + 1].signal,
          confidence |-> Quoted[answer.trend + 1].confidence,
          probability_ranges |-> Quoted[answer.trend + 1].probability_ranges]

has_row(rows, symbol) == \E i \in DOMAIN rows : rows[i].symbol = symbol

\* an INSERT that is not held against UNIQUE(user_id, symbol)
unique_violation_unchecked(rows, symbol) == FALSE

\* UNIQUE(user_id, symbol): an INSERT of a symbol that has a row raises
unique_violation(rows, symbol) == has_row(rows, symbol)

\* a connection holds the write lock of portfolio.db from its first UPDATE
\* until its commit
locked_by(t) == requests[t].pc = "update" /\ requests[t].updates # <<>>

\* another connection holds the write lock
locked_for(t) == \E u \in Threads \ {t} : locked_by(u)

failure(message) == [success |-> FALSE, message |-> message]
success(message) == [success |-> TRUE, message |-> message]

\* what the portfolio routes leave alone
outside_portfolio ==
    <<market_data, fill_pad, provider, df, latest, op, arg, ret, seen, batch, runs, watchlist>>

InitPortfolio ==
    /\ market_data = None
    /\ fill_pad = FALSE
    /\ df = None
    /\ latest = None
    /\ ret = None
    /\ op = "init"
    /\ Quiet

\* POST /api/portfolio/add up to the SELECT of add_to_portfolio: "if not
\* analysis", then "Check if already exists"
AddRequest(t, symbol, answer) ==
    /\ requests[t].pc = "idle"
    /\ Len(prediction_tracking) < MaxPredictions
    /\ requests' = [requests EXCEPT ![t] =
           IF analysis_of(symbol, answer) = None
           THEN [pc |-> "respond", route |-> "add", symbol |-> symbol, answer |-> answer,
                 result |-> failure("Could not analyze stock")]
           ELSE IF has_row(user_portfolios, symbol)
           THEN [pc |-> "added", route |-> "add", symbol |-> symbol, answer |-> answer,
                 result |-> failure("already in portfolio")]
           ELSE [pc |-> "selected", route |-> "add", symbol |-> symbol, answer |-> answer,
                 result |-> None]]
    /\ UNCHANGED <<user_portfolios, prediction_tracking>>
    /\ UNCHANGED outside_portfolio

\* the row add_to_portfolio inserts
portfolio_row(symbol, date, analysis) ==
    [symbol |-> symbol, added_date |-> date, added_price |-> analysis.current_price,
     current_price |-> analysis.current_price, signal_when_added |-> analysis.signal,
     confidence_when_added |-> analysis.confidence]

\* add_to_portfolio: INSERT and commit, or the exception SQLite raises
AddInsert(t) ==
    /\ requests[t].pc = "selected"
    /\ \/ /\ ~locked_for(t)
          /\ ~unique_violation(user_portfolios, requests[t].symbol)
          /\ user_portfolios' = Append(user_portfolios,
                 portfolio_row(requests[t].symbol, Today,
                               analysis_of(requests[t].symbol, requests[t].answer)))
          /\ requests' = [requests EXCEPT ![t].pc = "added",
                                          ![t].result = success("added to portfolio")]
       \/ /\ ~locked_for(t)
          /\ unique_violation(user_portfolios, requests[t].symbol)
          /\ requests' = [requests EXCEPT ![t].pc = "added",
                              ![t].result = failure("Error: UNIQUE constraint failed")]
          /\ UNCHANGED user_portfolios
       \/ /\ locked_for(t)
          /\ requests' = [requests EXCEPT ![t].pc = "added",
                              ![t].result = failure("Error: database is locked")]
          /\ UNCHANGED user_portfolios
    /\ UNCHANGED prediction_tracking
    /\ UNCHANGED outside_portfolio

\* the row save_prediction inserts
prediction_row(symbol, date, analysis) ==
    [symbol |-> symbol, prediction_date |-> date, signal |-> analysis.signal,
     confidence |-> analysis.confidence, price_when_predicted |-> analysis.current_price,
     target_price_1week |-> analysis.probability_ranges.w1.expected_price,
     target_price_1month |-> analysis.probability_ranges.m1.expected_price,
     target_price_3month |-> analysis.probability_ranges.m3.expected_price]

\* the route's call of save_prediction after add_to_portfolio has returned
SavePrediction(t) ==
    /\ requests[t].pc = "added"
    /\ \/ /\ ~locked_for(t)
          /\ prediction_tracking' = Append(prediction_tracking,
                 prediction_row(requests[t].symbol, Today,
                                analysis_of(requests[t].symbol, requests[t].answer)))
       \/ /\ locked_for(t)
          /\ UNCHANGED prediction_tracking
    /\ requests' = [requests EXCEPT ![t].pc = "respond"]
    /\ UNCHANGED user_portfolios
    /\ UNCHANGED outside_portfolio

\* POST /api/portfolio/remove: remove_from_portfolio, from connect to commit,
\* or the exception of a connection that waited for the lock in vain
RemoveFromPortfolio(t, symbol) ==
    /\ requests[t].pc = "idle"
    /\ \/ /\ ~locked_for(t)
          /\ user_portfolios' = SelectSeq(user_portfolios, LAMBDA row : row.symbol # symbol)
          /\ requests' = [requests EXCEPT ![t] =
                 [pc |-> "respond", route |-> "remove", symbol |-> symbol,
                  result |-> success("removed from portfolio")]]
       \/ /\ locked_for(t)
          /\ requests' = [requests EXCEPT ![t] =
                 [pc |-> "respond", route |-> "remove", symbol |-> symbol,
                  result |-> failure("Error: database is locked")]]
          /\ UNCHANGED user_portfolios
    /\ UNCHANGED prediction_tracking
    /\ UNCHANGED outside_portfolio

\* POST /api/portfolio/clear, from connect to commit, or the exception
ClearPortfolio(t) ==
    /\ requests[t].pc = "idle"
    /\ \/ /\ ~locked_for(t)
          /\ user_portfolios' = <<>>
          /\ requests' = [requests EXCEPT ![t] =
                 [pc |-> "respond", route |-> "clear", result |-> success("Portfolio cleared")]]
       \/ /\ locked_for(t)
          /\ requests' = [requests EXCEPT ![t] =
                 [pc |-> "respond", route |-> "clear", result |-> failure("database is locked")]]
          /\ UNCHANGED user_portfolios
    /\ UNCHANGED prediction_tracking
    /\ UNCHANGED outside_portfolio

\* get_portfolio(): the symbols, latest row first
get_portfolio(rows) == [i \in 1 .. Len(rows) |-> rows[Len(rows) + 1 - i].symbol]

\* update_portfolio_prices: "portfolio = self.get_portfolio()"
UpdateStart(t) ==
    /\ requests[t].pc = "idle"
    /\ requests' = [requests EXCEPT ![t] =
           [pc |-> "update", route |-> "update", portfolio |-> get_portfolio(user_portfolios),
            i |-> 1, updates |-> <<>>]]
    /\ UNCHANGED <<user_portfolios, prediction_tracking>>
    /\ UNCHANGED outside_portfolio

\* update_portfolio_prices: one pass of "for stock in portfolio"
UpdatePass(t, answer) ==
    /\ requests[t].pc = "update"
    /\ requests[t].i <= Len(requests[t].portfolio)
    /\ \/ /\ analysis_of(requests[t].portfolio[requests[t].i], answer) = None
          /\ requests' = [requests EXCEPT ![t].i = @ + 1]
       \/ /\ analysis_of(requests[t].portfolio[requests[t].i], answer) # None
          /\ ~locked_for(t)
          /\ requests' = [requests EXCEPT ![t].i = @ + 1, ![t].updates = Append(@,
                 [symbol |-> requests[t].portfolio[requests[t].i],
                  current_price |->
                      analysis_of(requests[t].portfolio[requests[t].i], answer).current_price])]
       \/ /\ analysis_of(requests[t].portfolio[requests[t].i], answer) # None
          /\ locked_for(t)
          /\ requests' = [requests EXCEPT ![t] =
                 [pc |-> "respond", route |-> "update",
                  result |-> failure("Error updating prices")]]
    /\ UNCHANGED <<user_portfolios, prediction_tracking>>
    /\ UNCHANGED outside_portfolio

\* UPDATE user_portfolios SET current_price = ? WHERE symbol = ?
set_current_price(rows, update) ==
    [i \in DOMAIN rows |-> IF rows[i].symbol = update.symbol
                           THEN [rows[i] EXCEPT !.current_price = update.current_price]
                           ELSE rows[i]]

\* the UPDATEs of a connection, in order
apply_updates(rows, updates) ==
    FoldRange(LAMBDA acc, i : set_current_price(acc, updates[i]), rows, 1, Len(updates))

\* update_portfolio_prices: conn.commit() after the loop
UpdateCommit(t) ==
    /\ requests[t].pc = "update"
    /\ requests[t].i > Len(requests[t].portfolio)
    /\ user_portfolios' = apply_updates(user_portfolios, requests[t].updates)
    /\ requests' = [requests EXCEPT ![t] =
           [pc |-> "respond", route |-> "update",
            result |-> success("Prices updated successfully")]]
    /\ UNCHANGED prediction_tracking
    /\ UNCHANGED outside_portfolio

\* return jsonify(result)
Respond(t) ==
    /\ requests[t].pc = "respond"
    /\ requests' = [requests EXCEPT ![t] = Resting]
    /\ UNCHANGED <<user_portfolios, prediction_tracking>>
    /\ UNCHANGED outside_portfolio

NextPortfolio ==
    \/ \E t \in Threads, symbol \in Symbols, answer \in Quotes : AddRequest(t, symbol, answer)
    \/ \E t \in Threads : AddInsert(t)
    \/ \E t \in Threads : SavePrediction(t)
    \/ \E t \in Threads, symbol \in Symbols : RemoveFromPortfolio(t, symbol)
    \/ \E t \in Threads : ClearPortfolio(t)
    \/ \E t \in Threads : UpdateStart(t)
    \/ \E t \in Threads, answer \in Requotes : UpdatePass(t, answer)
    \/ \E t \in Threads : UpdateCommit(t)
    \/ \E t \in Threads : Respond(t)

SpecPortfolio == InitPortfolio /\ [][NextPortfolio]_vars

\* the rows of a symbol
rows_of(rows, symbol) == SelectSeq(rows, LAMBDA row : row.symbol = symbol)

\* add_to_portfolio returns to thread t's route in this step
AddReturns(t) ==
    /\ requests[t].pc \in {"idle", "selected"}
    /\ requests'[t].pc = "added"

\* C27: after any interleaving of add_to_portfolio, remove_from_portfolio,
\* update_portfolio_prices and clear_portfolio, two concurrent adds of one
\* symbol included, the portfolio holds at most one row per symbol; an add
\* for a symbol that has a row returns success = false and leaves the row's
\* added_price, added_date, signal_when_added and confidence_when_added as
\* they are.
C27_OneRowPerSymbol ==
    /\ [](\A s \in Symbols : Len(rows_of(user_portfolios, s)) <= 1)
    /\ [][\A t \in Threads :
             AddReturns(t) /\ has_row(user_portfolios, requests'[t].symbol) =>
                 /\ ~requests'[t].result.success
                 /\ \A f \in {"added_price", "added_date", "signal_when_added",
                              "confidence_when_added"} :
                        rows_of(user_portfolios', requests'[t].symbol)[1][f]
                            = rows_of(user_portfolios, requests'[t].symbol)[1][f]]_vars

\* of two adds of one symbol that both found no row, the second is refused
\* by the UNIQUE constraint and the row of the first is there
C27_Witness ==
    \E t \in Threads :
        /\ requests[t].pc = "added"
        /\ requests[t].result = failure("Error: UNIQUE constraint failed")
        /\ Len(rows_of(user_portfolios, requests[t].symbol)) = 1

\* C28: POST /api/portfolio/add changes the stored state only when the stock
\* is added: a request that is rejected, or whose analysis is absent, writes
\* no row of user_portfolios and no row of prediction_tracking.
C28_WritesOnlyWhenAdded ==
    [][\A t \in Threads :
          requests'[t].pc \in {"added", "respond"} /\ requests'[t].pc # requests[t].pc
            /\ requests'[t].route = "add" /\ ~requests'[t].result.success =>
              /\ user_portfolios' = user_portfolios
              /\ prediction_tracking' = prediction_tracking]_vars

----------------------------------------------------------------------------
(* StockListManager and the /api/watchlist routes: the table watchlist of  *)
(* portfolio.db (symbol TEXT UNIQUE), rows in the order of their ids.      *)

\* the tickers, in ascending order
Tickers == <<"AAA", "BBB", "CCC">>

\* the symbol of a request: a ticker in upper or in lower case, with or
\* without blanks around it
Texts == [ticker : {Tickers[i] : i \in DOMAIN Tickers}, lower : BOOLEAN, padded : BOOLEAN]

\* str.upper() and str.strip()
upper(text) == [text EXCEPT !.lower = FALSE]
strip(text) == [text EXCEPT !.padded = FALSE]

\* the place of a text in ORDER BY symbol: a blank sorts before the capitals,
\* the capitals before the small letters
sort_key(text) ==
    (IF text.padded THEN 0 ELSE IF text.lower THEN 2 ELSE 1) * Len(Tickers)
        + (CHOOSE i \in DOMAIN Tickers : Tickers[i] = text.ticker)

\* init_default_stocks: the default rows of an empty table: AAA and BBB
default_stocks ==
    [i \in 1 .. 2 |-> [symbol |-> [ticker |-> Tickers[i], lower |-> FALSE, padded |-> FALSE],
                       added_by_user |-> FALSE, is_active |-> TRUE]]

InitWatchlist ==
    /\ market_data = None
    /\ fill_pad = FALSE
    /\ df = None
    /\ latest = None
    /\ ret = None
    /\ op = "init"
    /\ provider = [s \in Symbols |-> None]
    /\ seen = [s \in Symbols |-> NotCalled]
    /\ batch = Idle
    /\ arg = "SYM"
    /\ runs = [t \in Threads |-> Idle]
    /\ requests = [t \in Threads |-> Resting]
    /\ user_portfolios = <<>>
    /\ prediction_tracking = <<>>
    /\ watchlist = default_stocks

\* what the watchlist routes leave alone
outside_watchlist ==
    <<market_data, fill_pad, provider, df, latest, seen, batch, runs, user_portfolios,
      prediction_tracking, requests>>

\* SELECT symbol FROM watchlist WHERE is_active = TRUE, in any order of rows
get_active_stocks_unfiltered(rows) ==
    FoldRange(LAMBDA acc, k : acc \o SelectSeq([i \in DOMAIN rows |-> rows[i].symbol],
                                               LAMBDA x : sort_key(x) = k),
              <<>>, 1, 3 * Len(Tickers))

\* get_active_stocks: SELECT symbol FROM watchlist WHERE is_active = TRUE
\* ORDER BY symbol
get_active_stocks(rows) ==
    FoldRange(LAMBDA acc, k :
                  acc \o SelectSeq([i \in DOMAIN SelectSeq(rows, LAMBDA r : r.is_active) |->
                                        SelectSeq(rows, LAMBDA r : r.is_active)[i].symbol],
                                   LAMBDA x : sort_key(x) = k),
              <<>>, 1, 3 * Len(Tickers))

\* get_stock_list() of the analyzer
GetActiveStocks ==
    /\ op' = "get_active_stocks"
    /\ ret' = get_active_stocks(watchlist)
    /\ UNCHANGED <<arg, watchlist>>
    /\ UNCHANGED outside_watchlist

\* INSERT OR REPLACE INTO watchlist (..., added_by_user, is_active) VALUES
\* (..., TRUE, TRUE): the rows in conflict on symbol go, the new row comes
insert_or_replace(rows, symbol) ==
    Append(SelectSeq(rows, LAMBDA r : r.symbol # symbol),
           [symbol |-> symbol, added_by_user |-> TRUE, is_active |-> TRUE])

\* POST /api/watchlist/add and add_stock_to_watchlist; valid tells whether
\* the provider's info holds the key 'symbol'
AddStockToWatchlist(text, valid) ==
    /\ op' = "add_stock_to_watchlist"
    /\ arg' = text
    /\ IF valid
       THEN /\ watchlist' = insert_or_replace(watchlist, strip(upper(upper(strip(text)))))
            /\ ret' = success("Added to watchlist")
       ELSE /\ ret' = failure("Invalid stock symbol")
            /\ UNCHANGED watchlist
    /\ UNCHANGED outside_watchlist

\* cursor.rowcount of a statement WHERE symbol = ?
rowcount(rows, symbol) == Len(SelectSeq(rows, LAMBDA r : r.symbol = symbol))

\* POST /api/watchlist/remove and remove_stock_from_watchlist
RemoveStockFromWatchlist(text) ==
    /\ op' = "remove_stock_from_watchlist"
    /\ arg' = text
    /\ IF rowcount(watchlist, upper(upper(strip(text)))) > 0
       THEN /\ watchlist' = SelectSeq(watchlist, LAMBDA r : r.symbol # upper(upper(strip(text))))
            /\ ret' = success("Removed from watchlist")
       ELSE /\ ret' = failure("not found in watchlist")
            /\ UNCHANGED watchlist
    /\ UNCHANGED outside_watchlist

\* POST /api/watchlist/toggle and toggle_stock_active
ToggleStockActive(text, is_active) ==
    /\ op' = "toggle_stock_active"
    /\ arg' = text
    /\ IF rowcount(watchlist, upper(upper(strip(text)))) > 0
       THEN /\ watchlist' = [i \in DOMAIN watchlist |->
                                IF watchlist[i].symbol = upper(upper(strip(text)))
                                THEN [watchlist[i] EXCEPT !.is_active = is_active]
                                ELSE watchlist[i]]
            /\ ret' = success(IF is_active THEN "enabled for analysis"
                              ELSE "disabled for analysis")
       ELSE /\ ret' = failure("not found in watchlist")
            /\ UNCHANGED watchlist
    /\ UNCHANGED outside_watchlist

NextWatchlist ==
    \/ GetActiveStocks
    \/ \E text \in Texts, valid \in BOOLEAN : AddStockToWatchlist(text, valid)
    \/ \E text \in Texts : RemoveStockFromWatchlist(text)
    \/ \E text \in Texts, is_active \in BOOLEAN : ToggleStockActive(text, is_active)

SpecWatchlist == InitWatchlist /\ [][NextWatchlist]_vars

\* the rows of a ticker, however the request spelled it
listed(rows, text) == SelectSeq(rows, LAMBDA r : r.symbol.ticker = text.ticker)

\* C29: after any sequence of add_stock_to_watchlist,
\* remove_stock_from_watchlist and toggle_stock_active, get_active_stocks
\* returns exactly the symbols whose is_active flag is true, each once, in
\* ascending order; remove and toggle on a symbol that is not on the
\* watchlist return success = false and change nothing.
C29_ActiveListExact ==
    /\ [](op = "get_active_stocks" =>
            /\ \A i, j \in DOMAIN ret : i < j => sort_key(ret[i]) < sort_key(ret[j])
            /\ {ret[i] : i \in DOMAIN ret}
                 = {watchlist[k].symbol : k \in {n \in DOMAIN watchlist : watchlist[n].is_active}})
    /\ [][op' \in {"remove_stock_from_watchlist", "toggle_stock_active"}
            /\ listed(watchlist, arg') = <<>> =>
              ~ret'.success /\ watchlist' = watchlist]_vars

\* the list of a table that holds a disabled row and whose active rows are
\* not in the order of their symbols
C29_Witness ==
    /\ op = "get_active_stocks"
    /\ Len(watchlist) = 3
    /\ ~watchlist[1].is_active
    /\ watchlist[2].is_active /\ watchlist[3].is_active
    /\ sort_key(watchlist[2].symbol) > sort_key(watchlist[3].symbol)
    /\ Len(ret) = 2

\* C30: adding a symbol that is already on the watchlist keeps exactly one
\* row for it and preserves the row's state: a disabled stock stays disabled
\* and a default stock keeps added_by_user false.
C30_ReaddPreserves ==
    [][op' = "add_stock_to_watchlist" /\ ret'.success /\ listed(watchlist, arg') # <<>> =>
          /\ Len(listed(watchlist', arg')) = 1
          /\ listed(watchlist', arg')[1].is_active = listed(watchlist, arg')[1].is_active
          /\ listed(watchlist', arg')[1].added_by_user
               = listed(watchlist, arg')[1].added_by_user]_vars

====
